---- MODULE Spec2Model ----
(***************************************************************************)
(* Verifiable remote file storage: the Merkle commitment engine            *)
(* (merkle/src/tree.rs), the server bucket store (server/src/app.rs,       *)
(* client_bucket.rs, database.rs) and the client upload / download         *)
(* protocol (client/src/http_client.rs).                                   *)
(*                                                                         *)
(* Byte strings are sequences of integers.  A file body is a one-element   *)
(* sequence <<k>>, k >= 1.  Sha256 is modelled as a collision-free         *)
(* constructor: Sha256Digest(b) = <<0>> \o b.  Every digest therefore      *)
(* parses uniquely (0 k is the digest of body k, 0 H H the digest of the   *)
(* 64-byte concatenation of two digests), so the concatenation of two      *)
(* digests determines both halves, as it does for fixed-width hashes.      *)
(***************************************************************************)
EXTENDS Integers, Sequences, FiniteSets, TLC

\* ------------------------------------------------------------------ bounds
\* Number of distinct ciphertext bodies in the merkle-engine model.
NumContents == 3
\* Longest leaf sequence given to the merkle engine.
MaxLeaves == 4
\* Number of file names used in upload requests.
NumNames == 2
\* Number of requests (and restarts) the server handles in a run.
MaxRequests == 4
\* Number of download_and_verify calls in a run.
MaxDownloads == 1
\* Number of bucket ids a client draws.
MaxBucketIds == 2
\* Number of requests the server handles at the same time.
MaxHandlers == 2
\* Number of requests started in a run of the server taken handler by handler.
MaxStarts == 3

VARIABLES
    m_leaves,   \* merkle engine: the leaf sequence handed to build_from_leaves
    m_tree,     \* merkle engine: the Tree value under test
    m_index,    \* merkle engine: last index given to get_proof
    m_proof,    \* merkle engine: outcome of the last get_proof
    m_leaf,     \* merkle engine: last hash given to verify_proof
    m_ok,       \* merkle engine: result of the last verify_proof
    m_pc,       \* merkle engine: last operation applied
    buckets,    \* server: ServerState.buckets, bucket id -> ClientBucket
    disk,       \* server: the blobs under UPLOADS_DIR, path -> bytes
    db,         \* server: the durable store, key -> serialized ClientBucket
    resp,       \* server: the answer to the last request
    nreq,       \* server: number of state-changing requests handled so far
    snap,       \* history: per bucket, what the last complete_upload that
                \* answered 200 persisted and what /file and /proof answered then
    c_bucket_id,   \* client: ClientApp.bucket_id
    c_tree,        \* client: ClientApp.merkle_tree
    c_state_file,  \* client: the contents of STATE_FILE
    c_src,         \* client: the source folder, file name -> plaintext
    c_tasks,       \* client: the upload tasks of the running batch
    c_leaves,      \* client: the shared leaf accumulator of the running batch
    c_pc,          \* client: where the driver stands
    c_downloads,   \* client: LOCAL_REPO, file name (a hash) -> plaintext
    c_last,        \* client: the last download_and_verify call and its result
    c_ndl,         \* client: number of download_and_verify calls so far
    interrupted,   \* history: the hashes whose upload was answered 200 in a
                   \* batch that was cancelled before persist_state
    s_map,      \* handlers: ServerState.buckets as bucket id -> Arc (a pointer)
    s_heap,     \* handlers: the allocations, pointer -> ClientBucket
    s_lock,     \* handlers: the RwLock around ServerState
    b_lock,     \* handlers: per allocation, the RwLock around the ClientBucket
    d_lock,     \* handlers: the RwLock around the DB
    h_req       \* handlers: per handler task, its request and where it stands

mvars == <<m_leaves, m_tree, m_index, m_proof, m_leaf, m_ok, m_pc>>
svars == <<buckets, disk, db, resp, nreq, snap>>
cvars == <<c_bucket_id, c_tree, c_state_file, c_src, c_tasks, c_leaves, c_pc,
           c_downloads, c_last, c_ndl, interrupted>>
hvars == <<s_map, s_heap, s_lock, b_lock, d_lock, h_req>>
vars == <<mvars, svars, cvars, hvars>>

\* ------------------------------------------------------------------ hashes
\* Option<Hash>::None
None == <<>>

Sha256Digest(bytes) == <<0>> \o bytes

\* [h1 || h2], the 64-byte buffer hashed for an inner node
Concat(h1, h2) == h1 \o h2

\* A ciphertext body and its leaf hash
Body(k) == <<k>>
LeafHash(k) == Sha256Digest(Body(k))

\* Ord for [u8; 32]: lexicographic comparison of the bytes
RECURSIVE HashLess(_, _)
HashLess(a, b) ==
    IF a = <<>> THEN b # <<>>
    ELSE IF b = <<>> THEN FALSE
    ELSE IF Head(a) < Head(b) THEN TRUE
    ELSE IF Head(a) > Head(b) THEN FALSE
    ELSE HashLess(Tail(a), Tail(b))

\* ------------------------------------------------------------ merkle engine
\* Tree::default(): no root, no levels
DefaultTree == [root |-> None, levels |-> <<>>]

\* a build_next_level that promotes the last node of an odd level as it is
BuildNextLevelPromote(hashes) ==
    [j \in 1..((Len(hashes) + 1) \div 2) |->
        IF 2 * j <= Len(hashes)
        THEN Sha256Digest(Concat(hashes[2 * j - 1], hashes[2 * j]))
        ELSE hashes[2 * j - 1]]

\* Tree::build_next_level: adjacent pairs, the last node of an odd level
\* paired with itself
BuildNextLevel(hashes) ==
    [j \in 1..((Len(hashes) + 1) \div 2) |->
        LET h1 == hashes[2 * j - 1]
            h2 == IF 2 * j <= Len(hashes) THEN hashes[2 * j] ELSE h1
        IN  Sha256Digest(Concat(h1, h2))]

\* the while loop of build_from_leaves
RECURSIVE BuildLevels(_)
BuildLevels(levels) ==
    IF Len(levels[Len(levels)]) > 1
    THEN BuildLevels(Append(levels, BuildNextLevel(levels[Len(levels)])))
    ELSE levels

\* Tree::build_from_leaves
BuildFromLeaves(leaves) ==
    IF leaves = <<>> THEN DefaultTree
    ELSE LET levels == BuildLevels(<<leaves>>)
         IN  [root |-> levels[Len(levels)][1], levels |-> levels]

\* Tree::root_hash
RootHash(tree) == tree.root

\* Tree::leaves
Leaves(tree) == IF tree.levels = <<>> THEN <<>> ELSE tree.levels[1]

\* Tree::leaves_count
LeavesCount(tree) == IF tree.levels = <<>> THEN 0 ELSE Len(tree.levels[1])

\* The loop of get_proof over levels[k .. len-2] (1-based here: level k of
\* n - 1), idx 0-based as in the source.  A panic (the `_ => panic!` arm or
\* the failed assert) ends the call.
RECURSIVE ProofLoop(_, _, _, _)
ProofLoop(levels, k, idx, proof) ==
    IF k > Len(levels) - 1 THEN [panic |-> FALSE, proof |-> proof]
    ELSE LET level == levels[k]
             is_left_node == idx % 2 = 0
             pair_idx == IF is_left_node THEN idx + 1 ELSE idx - 1
         IN  IF pair_idx < Len(level)
             THEN ProofLoop(levels, k + 1, idx \div 2,
                     Append(proof, <<level[pair_idx + 1],
                                     IF is_left_node THEN 1 ELSE 0>>))
             ELSE IF pair_idx = Len(level)
             THEN IF Len(level) % 2 # 0
                  THEN ProofLoop(levels, k + 1, idx \div 2,
                          Append(proof, <<level[pair_idx], 0>>))
                  ELSE [panic |-> TRUE, proof |-> <<>>]
             ELSE [panic |-> TRUE, proof |-> <<>>]

\* a get_proof whose loop runs over every level, the top one included
GetProofWithTop(tree, index) ==
    IF tree.levels = <<>> THEN [panic |-> TRUE, proof |-> <<>>]
    ELSE ProofLoop(Append(tree.levels, <<>>), 1, index, <<>>)

\* Tree::get_proof.  On the empty tree `self.levels.len() - 1` underflows:
\* a panic in a checked build, and an out-of-range slice (a panic again) in
\* an unchecked one.
GetProof(tree, index) ==
    IF tree.levels = <<>> THEN [panic |-> TRUE, proof |-> <<>>]
    ELSE ProofLoop(tree.levels, 1, index, <<>>)

\* The fold of verify_proof from entry k on
RECURSIVE VerifyFold(_, _, _)
VerifyFold(hash, proof, k) ==
    IF k > Len(proof) THEN hash
    ELSE LET p == proof[k][1]
             is_left_leave == proof[k][2]
             combined == IF is_left_leave > 0 THEN Concat(hash, p)
                         ELSE Concat(p, hash)
         IN  VerifyFold(Sha256Digest(combined), proof, k + 1)

\* verify_proof with the side flag read the other way round
RECURSIVE VerifyFoldSwapped(_, _, _)
VerifyFoldSwapped(hash, proof, k) ==
    IF k > Len(proof) THEN hash
    ELSE LET p == proof[k][1]
             combined == IF proof[k][2] > 0 THEN Concat(p, hash)
                         ELSE Concat(hash, p)
         IN  VerifyFoldSwapped(Sha256Digest(combined), proof, k + 1)

VerifyProofSwapped(leaf, proof, root) == VerifyFoldSwapped(leaf, proof, 1) = root

\* verify_proof whose flag-0 branch copies the sibling into both halves
RECURSIVE VerifyFoldSiblingOnly(_, _, _)
VerifyFoldSiblingOnly(hash, proof, k) ==
    IF k > Len(proof) THEN hash
    ELSE LET p == proof[k][1]
             combined == IF proof[k][2] > 0 THEN Concat(hash, p)
                         ELSE Concat(p, p)
         IN  VerifyFoldSiblingOnly(Sha256Digest(combined), proof, k + 1)

VerifyProofSiblingOnly(leaf, proof, root) ==
    VerifyFoldSiblingOnly(leaf, proof, 1) = root

\* Tree::verify_proof
VerifyProof(leaf, proof, root) == VerifyFold(leaf, proof, 1) = root

\* impl Serialize for Tree: the leaf sequence alone
SerializeTree(tree) == Leaves(tree)

\* a decoder that loses the last leaf
DeserializeTreeShort(leaves) ==
    BuildFromLeaves(SubSeq(leaves, 1, Len(leaves) - 1))

\* impl Deserialize for Tree: rebuild from the leaves
DeserializeTree(leaves) == BuildFromLeaves(leaves)

LeafHashes == {LeafHash(k) : k \in 1..NumContents}

RECURSIVE SeqsUpTo(_, _)
SeqsUpTo(S, n) ==
    IF n = 0 THEN {<<>>}
    ELSE LET shorter == SeqsUpTo(S, n - 1)
         IN  shorter \cup {Append(s, x) : s \in {t \in shorter : Len(t) = n - 1}, x \in S}

\* every node of a tree
TreeNodes(tree) ==
    UNION {{tree.levels[k][j] : j \in 1..Len(tree.levels[k])} : k \in 1..Len(tree.levels)}

NoProof == [panic |-> FALSE, proof |-> <<>>]

\* ------------------------------------------------------------ server store
\* The bucket store is driven on one bucket id: a handler reads and writes
\* only the map entry, the directory and the database key of its own bucket.
BucketIds == {1}
FileNames == 1..NumNames
Bodies == {Body(k) : k \in 1..NumContents}

\* f with key k set to v (HashMap::insert, a RocksDB put, fs::write)
Put(f, k, v) == [x \in DOMAIN f \cup {k} |-> IF x = k THEN v ELSE f[x]]

EmptyMap == [x \in {} |-> <<>>]

\* BTreeMap<[u8; 32], String>: the entries <<key, path>> in ascending key order
\* BTreeMap::keys, in iteration order
Keys(files) == [i \in 1..Len(files) |-> files[i][1]]

\* BTreeMap::contains_key
ContainsKey(files, h) == \E i \in 1..Len(files) : files[i][1] = h

\* an insert that keeps arrival order
BTreeInsertUnordered(files, h, path) ==
    SelectSeq(files, LAMBDA e : e[1] # h) \o <<<<h, path>>>>

\* BTreeMap::insert: the entry takes its place in key order (replacing an
\* entry of the same key)
BTreeInsert(files, h, path) ==
    SelectSeq(files, LAMBDA e : HashLess(e[1], h))
        \o <<<<h, path>>>>
        \o SelectSeq(files, LAMBDA e : HashLess(h, e[1]))

\* serde's BTreeMap deserializer: insert the decoded entries one by one
RECURSIVE BTreeFromEntries(_)
BTreeFromEntries(entries) ==
    IF entries = <<>> THEN <<>>
    ELSE LET n == Len(entries)
         IN  BTreeInsert(BTreeFromEntries(SubSeq(entries, 1, n - 1)),
                         entries[n][1], entries[n][2])

\* ClientBucket::new
NewBucket(bucket_id) ==
    [bucket_id |-> bucket_id, files |-> <<>>, merkle_tree |-> DefaultTree]

\* a rebuild that keeps the old leaves and appends the keys that are new
CalculateMerkleTreeAppending(bucket) ==
    LET old == Leaves(bucket.merkle_tree)
        fresh == SelectSeq(Keys(bucket.files),
                           LAMBDA h : \A i \in 1..Len(old) : old[i] # h)
    IN  [bucket EXCEPT !.merkle_tree = BuildFromLeaves(old \o fresh)]

\* ClientBucket::calculate_merkle_tree
CalculateMerkleTree(bucket) ==
    [bucket EXCEPT !.merkle_tree = BuildFromLeaves(Keys(bucket.files))]

\* ClientBucket::get_filepath
GetFilepath(bucket, index) ==
    IF index < Len(bucket.files) THEN bucket.files[index + 1][2] ELSE None

\* ClientBucket::get_dir / the path handle_upload_file formats
FilePath(bucket, filename) == <<bucket.bucket_id, filename>>

\* bincode of a ClientBucket (derive Serialize): the id, the map entries in
\* order, and the tree as its leaf sequence
SerializeBucket(bucket) ==
    [bucket_id |-> bucket.bucket_id,
     files |-> bucket.files,
     merkle_tree |-> SerializeTree(bucket.merkle_tree)]

DeserializeBucket(value) ==
    [bucket_id |-> value.bucket_id,
     files |-> BTreeFromEntries(value.files),
     merkle_tree |-> DeserializeTree(value.merkle_tree)]

\* DB::update_bucket (put under the bucket id, commit) and DB::flush
UpdateBucket(store, bucket) ==
    Put(store, bucket.bucket_id, SerializeBucket(bucket))

\* DB::read_all_buckets
ReadAllBuckets(store) == [k \in DOMAIN store |-> DeserializeBucket(store[k])]

\* ServerState::load_buckets_from_db
LoadBucketsFromDb(store) ==
    LET loaded == ReadAllBuckets(store)
    IN  [k \in DOMAIN loaded |-> CalculateMerkleTree(loaded[k])]

\* get_or_create_bucket: the map after the call
GetOrCreateBucket(bks, b) ==
    IF b \in DOMAIN bks THEN bks ELSE Put(bks, b, NewBucket(b))

\* bincode of Vec<([u8; 32], u8)>: the record count, then per record the
\* hash bytes followed by the flag byte
RECURSIVE ProofRecords(_)
ProofRecords(proof) ==
    IF proof = <<>> THEN <<>>
    ELSE proof[1][1] \o <<proof[1][2]>> \o ProofRecords(Tail(proof))

SerializeProof(proof) == <<Len(proof)>> \o ProofRecords(proof)

\* The position after the hash that starts at pos, 0 when the bytes run out
\* (hashes are self-delimiting here where the source has 32 bytes each)
RECURSIVE HashEnd(_, _)
HashEnd(bytes, pos) ==
    IF pos = 0 \/ pos + 1 > Len(bytes) \/ bytes[pos] # 0 THEN 0
    ELSE IF bytes[pos + 1] # 0 THEN pos + 2
    ELSE HashEnd(bytes, HashEnd(bytes, pos + 1))

RECURSIVE DecodeRecords(_, _, _, _)
DecodeRecords(bytes, pos, n, proof) ==
    IF n = 0
    THEN [ok |-> TRUE, proof |-> proof]
    ELSE LET e == HashEnd(bytes, pos)
         IN  IF e = 0 \/ e > Len(bytes)
             THEN [ok |-> FALSE, proof |-> <<>>]
             ELSE DecodeRecords(bytes, e + 1, n - 1,
                     Append(proof, <<SubSeq(bytes, pos, e - 1), bytes[e]>>))

\* bincode::deserialize::<Vec<([u8; 32], u8)>>
DeserializeProof(bytes) ==
    IF bytes = <<>> THEN [ok |-> FALSE, proof |-> <<>>]
    ELSE DecodeRecords(bytes, 2, bytes[1], <<>>)

\* What handle_download_file answers on the state (bks, dsk); index -1 stands for a path
\* segment that does not parse as usize
DownloadFileReply(bks, dsk, b, index) ==
    IF b \notin DOMAIN bks THEN [status |-> 404, body |-> <<>>]
    ELSE IF index < 0 THEN [status |-> 404, body |-> <<>>]
    ELSE LET file_path == GetFilepath(bks[b], index)
         IN  IF file_path = None THEN [status |-> 404, body |-> <<>>]
             ELSE IF file_path \notin DOMAIN dsk
             THEN [status |-> 404, body |-> <<>>]
             ELSE [status |-> 200, body |-> dsk[file_path]]

\* What handle_download_proof answers on the state bks; status 0 stands for a handler
\* that panicked (the connection ends without a response)
DownloadProofReply(bks, b, index) ==
    IF b \notin DOMAIN bks THEN [status |-> 404, body |-> <<>>]
    ELSE IF index < 0 THEN [status |-> 404, body |-> <<>>]
    ELSE IF GetFilepath(bks[b], index) = None
    THEN [status |-> 404, body |-> <<>>]
    ELSE LET res == GetProof(bks[b].merkle_tree, index)
         IN  IF res.panic THEN [status |-> 0, body |-> <<>>]
             ELSE [status |-> 200, body |-> SerializeProof(res.proof)]

Indices == (-1)..NumContents

\* what /file and /proof answer for every index of bucket b
Answers(bks, dsk, b) ==
    [file |-> [i \in Indices |-> DownloadFileReply(bks, dsk, b, i)],
     proof |-> [i \in Indices |-> DownloadProofReply(bks, b, i)]]

\* sent is the body of the request (of an upload_file)
Response(op, b, arg, r) ==
    [op |-> op, bucket |-> b, arg |-> arg, sent |-> <<>>,
     status |-> r.status, body |-> r.body]

NoResponse ==
    [op |-> "none", bucket |-> 0, arg |-> 0, sent |-> <<>>, status |-> 0,
     body |-> <<>>]

\* One more request (or restart) handled
Count ==
    /\ nreq < MaxRequests
    /\ nreq' = nreq + 1

\* an upload handler without the duplicate check
HandleUploadFileNoCheck(b, filename, body, io) ==
    LET created == GetOrCreateBucket(buckets, b)
        bucket == created[b]
        file_hash == Sha256Digest(body)
        file_path == FilePath(bucket, filename)
        status == IF io # "ok" THEN 500 ELSE 200
    IN  /\ Count
        /\ resp' = [Response("upload_file", b, filename,
                             [status |-> status, body |-> <<>>])
                        EXCEPT !.sent = body]
        /\ disk' = IF status = 200 THEN Put(disk, file_path, body)
                   ELSE IF io = "write" THEN Put(disk, file_path, <<>>)
                   ELSE disk
        /\ buckets' = IF status = 200
                      THEN [created EXCEPT ![b].files =
                               BTreeInsert(bucket.files, file_hash, file_path)]
                      ELSE created
        /\ UNCHANGED <<db, snap>>

\* an upload handler that writes the blob before it looks for the hash
HandleUploadFileWriteFirst(b, filename, body, io) ==
    LET created == GetOrCreateBucket(buckets, b)
        bucket == created[b]
        file_hash == Sha256Digest(body)
        file_path == FilePath(bucket, filename)
        status == IF io # "ok" THEN 500
                  ELSE IF ContainsKey(bucket.files, file_hash) THEN 400
                  ELSE 200
    IN  /\ Count
        /\ resp' = [Response("upload_file", b, filename,
                             [status |-> status, body |-> <<>>])
                        EXCEPT !.sent = body]
        /\ disk' = IF io = "ok" THEN Put(disk, file_path, body)
                   ELSE IF io = "write" THEN Put(disk, file_path, <<>>)
                   ELSE disk
        /\ buckets' = IF status = 200
                      THEN [created EXCEPT ![b].files =
                               BTreeInsert(bucket.files, file_hash, file_path)]
                      ELSE created
        /\ UNCHANGED <<db, snap>>

\* handle_upload_file.  io is the outcome of fs::write: "ok", "create" (the
\* file could not be created: nothing written) or "write" (created and
\* truncated, the write failed).
HandleUploadFile(b, filename, body, io) ==
    LET created == GetOrCreateBucket(buckets, b)
        bucket == created[b]
        file_hash == Sha256Digest(body)
        file_path == FilePath(bucket, filename)
        status == IF ContainsKey(bucket.files, file_hash) THEN 400
                  ELSE IF io # "ok" THEN 500 ELSE 200
    IN  /\ Count
        /\ resp' = [Response("upload_file", b, filename,
                             [status |-> status, body |-> <<>>])
                        EXCEPT !.sent = body]
        /\ disk' = IF status = 200 THEN Put(disk, file_path, body)
                   ELSE IF status = 500 /\ io = "write"
                   THEN Put(disk, file_path, <<>>)
                   ELSE disk
        /\ buckets' = IF status = 200
                      THEN [created EXCEPT ![b].files =
                               BTreeInsert(bucket.files, file_hash, file_path)]
                      ELSE created
        /\ UNCHANGED <<db, snap>>

\* handle_complete_upload.  db_ok = FALSE: persist_bucket_lockless fails and
\* the expect panics after the tree was rebuilt (status 0: no response).
HandleCompleteUpload(b, db_ok) ==
    LET created == GetOrCreateBucket(buckets, b)
        bucket == CalculateMerkleTree(created[b])
    IN  /\ Count
        /\ buckets' = [created EXCEPT ![b] = bucket]
        /\ IF db_ok
           THEN /\ db' = UpdateBucket(db, bucket)
                /\ snap' = Put(snap, b,
                               [files |-> bucket.files,
                                answers |-> Answers(buckets', disk, b)])
                /\ resp' = Response("complete_upload", b, 0,
                                    [status |-> 200, body |-> <<>>])
           ELSE /\ resp' = Response("complete_upload", b, 0,
                                    [status |-> 0, body |-> <<>>])
                /\ UNCHANGED <<db, snap>>
        /\ UNCHANGED disk

\* handle_download_file
HandleDownloadFile(b, index) ==
    /\ Count
    /\ resp' = Response("file", b, index,
                        DownloadFileReply(buckets, disk, b, index))
    /\ UNCHANGED <<buckets, disk, db, snap>>

\* handle_download_proof
HandleDownloadProof(b, index) ==
    /\ Count
    /\ resp' = Response("proof", b, index,
                        DownloadProofReply(buckets, b, index))
    /\ UNCHANGED <<buckets, disk, db, snap>>

\* run_server after the process ended: load_buckets_from_db
RunServer ==
    /\ Count
    /\ buckets' = LoadBucketsFromDb(db)
    /\ resp' = Response("restart", 0, 0, [status |-> 0, body |-> <<>>])
    /\ UNCHANGED <<disk, db, snap>>

\* ------------------------------------------------------------------ client
\* One byte XORed with the keystream byte: an involution without fixed point
XorByte(x) == IF x % 2 = 0 THEN x + 1 ELSE x - 1

\* ChaCha20::apply_keystream under CHACHA_KEY and the fixed nonce (the same
\* keystream on every call)
ApplyKeystream(data) == [i \in 1..Len(data) |-> XorByte(data[i])]

\* The plaintexts whose ciphertexts are Bodies
Plaintexts == {ApplyKeystream(body) : body \in Bodies}

\* STATE_FILE absent
NoStateFile ==
    [exists |-> FALSE, torn |-> FALSE, merkle_tree |-> <<>>, bucket_id |-> 0]

\* STATE_FILE created by an fs::write that failed before the bytes were out
TornStateFile ==
    [exists |-> TRUE, torn |-> TRUE, merkle_tree |-> <<>>, bucket_id |-> 0]

\* bincode of State {merkle_tree, bucket_id}
SerializeState(tree, bucket_id) ==
    [exists |-> TRUE, torn |-> FALSE, merkle_tree |-> SerializeTree(tree),
     bucket_id |-> bucket_id]

\* ClientApp::read_from_file; fresh is the bucket id drawn when no state
\* file is found.  On bytes that do not decode the expect panics.
ReadFromFile(file, fresh) ==
    IF ~file.exists
    THEN [panic |-> FALSE, bucket_id |-> fresh, merkle_tree |-> DefaultTree]
    ELSE IF file.torn
    THEN [panic |-> TRUE, bucket_id |-> 0, merkle_tree |-> DefaultTree]
    ELSE [panic |-> FALSE, bucket_id |-> file.bucket_id,
          merkle_tree |-> DeserializeTree(file.merkle_tree)]

\* ClientApp::persist_state: io is the outcome of fs::write on STATE_FILE
PersistState(file, tree, bucket_id, io) ==
    IF io = "create" THEN file
    ELSE IF io = "write" THEN TornStateFile
    ELSE SerializeState(tree, bucket_id)

\* a verify that treats a missing root as nothing to check
VerifyLenient(tree, proof, hash) ==
    IF RootHash(tree) # None /\ ~VerifyProof(hash, proof, RootHash(tree))
    THEN "InvalidProof"
    ELSE "Ok"

\* ClientApp::verify
Verify(tree, proof, hash) ==
    IF RootHash(tree) # None
    THEN IF ~VerifyProof(hash, proof, RootHash(tree)) THEN "InvalidProof"
         ELSE "Ok"
    ELSE "MissingMerkleRoot"

\* The result of download_and_verify on the two replies (status 0: the
\* request failed without a response)
DownloadResult(tree, file, proof) ==
    IF file.status # 200 THEN "FailedDownload"
    ELSE IF proof.status # 200 THEN "FailedDownload"
    ELSE LET decoded == DeserializeProof(proof.body)
         IN  IF ~decoded.ok THEN "Codec"
             ELSE Verify(tree, decoded.proof, Sha256Digest(file.body))

NoDownload == [result |-> "none", io |-> "ok",
               file |-> [status |-> 0, body |-> <<>>],
               proof |-> [status |-> 0, body |-> <<>>]]

\* ClientApp::decrypt_and_save_file on the download directory dir: fs::write
\* may fail before the file is created or after it was truncated
DecryptAndSaveFile(dir, file_id, data, io) ==
    IF io = "create" THEN dir
    ELSE IF io = "write" THEN Put(dir, file_id, <<>>)
    ELSE Put(dir, file_id, ApplyKeystream(data))

\* ClientApp::download_and_verify with the replies the server gave to
\* GET /file and GET /proof; decrypt_and_save_file runs when verify passed
DownloadAndVerify(file, proof, io) ==
    LET verified == DownloadResult(c_tree, file, proof)
        hash == Sha256Digest(file.body)
        result == IF verified = "Ok" /\ io # "ok" THEN "Io" ELSE verified
    IN  /\ c_pc = "idle"
        /\ c_ndl < MaxDownloads
        /\ verified # "Ok" => io = "ok"
        /\ c_ndl' = c_ndl + 1
        /\ c_last' = [result |-> result, io |-> io, file |-> file,
                      proof |-> proof]
        /\ c_downloads' = IF verified = "Ok"
                          THEN DecryptAndSaveFile(c_downloads, hash, file.body, io)
                          ELSE c_downloads
        /\ UNCHANGED <<c_bucket_id, c_tree, c_state_file, c_src, c_tasks,
                       c_leaves, c_pc, interrupted>>

\* The 64-byte buffers build_next_level hashed on the way to the root
SiblingConcats(tree) ==
    UNION {LET level == tree.levels[k]
           IN  {Concat(level[2 * j - 1],
                       IF 2 * j <= Len(level) THEN level[2 * j]
                       ELSE level[2 * j - 1]) :
                   j \in 1..((Len(level) + 1) \div 2)}
           : k \in 1..(Len(tree.levels) - 1)}

\* What an untrusted server may answer to GET /file: no file, any
\* ciphertext, or the concatenation of two sibling nodes of the client's
\* tree
FileReplies(tree) ==
    {[status |-> 404, body |-> <<>>]}
        \cup {[status |-> 200, body |-> body] : body \in Bodies}
        \cup {[status |-> 200, body |-> body] : body \in SiblingConcats(tree)}

\* The proofs get_proof gives on the tree, and every tail of them
ProofTails(tree) ==
    UNION {LET proof == GetProof(tree, i).proof
           IN  {SubSeq(proof, k, Len(proof)) : k \in 1..(Len(proof) + 1)}
           : i \in 0..(LeavesCount(tree) - 1)}

\* What an untrusted server may answer to GET /proof: nothing, 404, bytes
\* that are no proof, or the encoding of a proof
ProofReplies(tree) ==
    {[status |-> 0, body |-> <<>>], [status |-> 404, body |-> <<>>],
     [status |-> 200, body |-> <<1>>]}
        \cup {[status |-> 200, body |-> SerializeProof(proof)] :
                 proof \in ProofTails(tree) \cup {<<>>}}

\* ---------------------------------------------- server, handler by handler
\* The handlers of run_server as concurrent tasks.  A step of a handler runs
\* from one await to the next; ServerState.buckets is s_map over s_heap (the
\* Arc handles the handlers clone are the pointers), the blobs and the
\* database are disk and db.
Handlers == 1..MaxHandlers

\* tokio::sync::RwLock: the writer (0: none), the readers, and the FIFO queue
\* of waiting <<task, mode>> (write-preferring: a reader queues behind a
\* waiting writer)
NoLock == [w |-> 0, r |-> {}, q |-> <<>>]

\* RwLock::read / RwLock::write called: the task waits in the queue
Enqueue(lock, h, mode) == [lock EXCEPT !.q = Append(@, <<h, mode>>)]

\* the await of task h on the lock can complete
CanTake(lock, h) ==
    /\ lock.q # <<>>
    /\ lock.q[1][1] = h
    /\ lock.w = 0
    /\ lock.q[1][2] = "w" => lock.r = {}

\* the guard is handed to the task at the head of the queue
Take(lock, h) ==
    [w |-> IF lock.q[1][2] = "w" THEN h ELSE 0,
     r |-> IF lock.q[1][2] = "r" THEN lock.r \cup {h} ELSE lock.r,
     q |-> Tail(lock.q)]

\* the guards and the pending acquire of task h are dropped
Drop(lock, h) ==
    [w |-> IF lock.w = h THEN 0 ELSE lock.w,
     r |-> lock.r \ {h},
     q |-> SelectSeq(lock.q, LAMBDA e : e[1] # h)]

\* bucket.write() in the upload handlers, bucket.read() in the download ones
BucketMode(op) ==
    IF op \in {"upload_file", "complete_upload"} THEN "w" ELSE "r"

NoRequest ==
    [op |-> "none", bucket |-> 0, arg |-> 0, body |-> <<>>, pc |-> "idle",
     handle |-> 0, status |-> 0, raced |-> FALSE]

\* the ClientBucket behind the handle of task h, as a one-bucket map
HandleView(h) ==
    Put(EmptyMap, h_req[h].bucket, s_heap[h_req[h].handle])

\* warp hands a request to a handler task, which calls get_bucket:
\* state.read().await
BeginRequest(h, op, b, arg, body) ==
    /\ h_req[h].pc \in {"idle", "done"}
    /\ nreq < MaxStarts
    /\ nreq' = nreq + 1
    /\ h_req' = [h_req EXCEPT ![h] =
                    [op |-> op, bucket |-> b, arg |-> arg, body |-> body,
                     pc |-> "get_bucket", handle |-> 0, status |-> 0,
                     raced |-> FALSE]]
    /\ s_lock' = Enqueue(s_lock, h, "r")
    /\ UNCHANGED <<s_map, s_heap, b_lock, d_lock, disk, db>>

\* the task ends (return, panic or the future dropped): every guard it
\* holds is dropped and the request it owned (path segment, body) is freed
Finish(h, status) ==
    /\ h_req' = [h_req EXCEPT ![h].pc = "done", ![h].status = status,
                              ![h].arg = 0, ![h].body = <<>>]
    /\ s_lock' = Drop(s_lock, h)
    /\ d_lock' = Drop(d_lock, h)
    /\ b_lock' = [p \in DOMAIN b_lock |-> Drop(b_lock[p], h)]

\* get_bucket under the read guard: look the id up, clone the Arc, drop the
\* guard.  Found: go on to bucket.write() / bucket.read().  Not found: the
\* download handlers reject with 404, get_or_create_bucket calls
\* state.write().await
GetBucket(h) ==
    LET rq == h_req[h]
        released == Drop(Take(s_lock, h), h)
    IN  /\ rq.pc = "get_bucket"
        /\ CanTake(s_lock, h)
        /\ IF rq.bucket \in DOMAIN s_map
           THEN /\ h_req' = [h_req EXCEPT ![h].handle = s_map[rq.bucket],
                                          ![h].pc = "lock_bucket"]
                /\ b_lock' = [b_lock EXCEPT ![s_map[rq.bucket]] =
                                 Enqueue(@, h, BucketMode(rq.op))]
                /\ s_lock' = released
           ELSE IF rq.op \in {"upload_file", "complete_upload"}
           THEN /\ h_req' = [h_req EXCEPT ![h].pc = "create",
                                          ![h].raced = TRUE]
                /\ s_lock' = Enqueue(released, h, "w")
                /\ UNCHANGED b_lock
           ELSE /\ h_req' = [h_req EXCEPT ![h].pc = "done",
                                          ![h].status = 404,
                                          ![h].arg = 0]
                /\ s_lock' = released
                /\ UNCHANGED b_lock
        /\ UNCHANGED <<s_map, s_heap, d_lock, disk, db, nreq>>

\* a creation that puts its new bucket into the map whatever is there
\* (HashMap::insert)
EntryInsert(h) ==
    LET rq == h_req[h]
        fresh == Cardinality(DOMAIN s_heap) + 1
    IN  /\ rq.pc = "create"
        /\ CanTake(s_lock, h)
        /\ s_map' = Put(s_map, rq.bucket, fresh)
        /\ s_heap' = Put(s_heap, fresh, NewBucket(rq.bucket))
        /\ b_lock' = Put(b_lock, fresh, Enqueue(NoLock, h, BucketMode(rq.op)))
        /\ s_lock' = Drop(Take(s_lock, h), h)
        /\ h_req' = [h_req EXCEPT ![h].handle = fresh, ![h].pc = "lock_bucket"]
        /\ UNCHANGED <<d_lock, disk, db, nreq>>

\* a creation that keeps the write guard on ServerState until the handler
\* ends
EntryOrInsertKeepGuard(h) ==
    LET rq == h_req[h]
        exists == rq.bucket \in DOMAIN s_map
        fresh == Cardinality(DOMAIN s_heap) + 1
        ptr == IF exists THEN s_map[rq.bucket] ELSE fresh
    IN  /\ rq.pc = "create"
        /\ CanTake(s_lock, h)
        /\ s_map' = IF exists THEN s_map ELSE Put(s_map, rq.bucket, fresh)
        /\ s_heap' = IF exists THEN s_heap
                     ELSE Put(s_heap, fresh, NewBucket(rq.bucket))
        /\ b_lock' = IF exists
                     THEN [b_lock EXCEPT ![ptr] = Enqueue(@, h, BucketMode(rq.op))]
                     ELSE Put(b_lock, fresh, Enqueue(NoLock, h, BucketMode(rq.op)))
        /\ s_lock' = Take(s_lock, h)
        /\ h_req' = [h_req EXCEPT ![h].handle = ptr, ![h].pc = "lock_bucket"]
        /\ UNCHANGED <<d_lock, disk, db, nreq>>

\* the None arm of get_or_create_bucket under the write guard:
\* entry(id).or_insert(new bucket).clone(), the guard dropped at the end of
\* the arm; then bucket.write().await
EntryOrInsert(h) ==
    LET rq == h_req[h]
        exists == rq.bucket \in DOMAIN s_map
        fresh == Cardinality(DOMAIN s_heap) + 1
        ptr == IF exists THEN s_map[rq.bucket] ELSE fresh
    IN  /\ rq.pc = "create"
        /\ CanTake(s_lock, h)
        /\ s_map' = IF exists THEN s_map ELSE Put(s_map, rq.bucket, fresh)
        /\ s_heap' = IF exists THEN s_heap
                     ELSE Put(s_heap, fresh, NewBucket(rq.bucket))
        /\ b_lock' = IF exists
                     THEN [b_lock EXCEPT ![ptr] = Enqueue(@, h, BucketMode(rq.op))]
                     ELSE Put(b_lock, fresh, Enqueue(NoLock, h, BucketMode(rq.op)))
        /\ s_lock' = Drop(Take(s_lock, h), h)
        /\ h_req' = [h_req EXCEPT ![h].handle = ptr, ![h].pc = "lock_bucket"]
        /\ UNCHANGED <<d_lock, disk, db, nreq>>

\* an upload whose duplicate check looks the hash up in the files map of
\* every bucket of the server
UploadLockedAnyBucket(h, dir_ok) ==
    LET rq == h_req[h]
        p == rq.handle
        file_hash == Sha256Digest(rq.body)
    IN  /\ rq.pc = "lock_bucket"
        /\ rq.op = "upload_file"
        /\ CanTake(b_lock[p], h)
        /\ IF ~dir_ok THEN Finish(h, 0)
           ELSE IF \E q \in DOMAIN s_heap : ContainsKey(s_heap[q].files, file_hash)
           THEN Finish(h, 400)
           ELSE /\ h_req' = [h_req EXCEPT ![h].pc = "fs_write"]
                /\ b_lock' = [b_lock EXCEPT ![p] = Take(@, h)]
                /\ UNCHANGED <<s_lock, d_lock>>
        /\ UNCHANGED <<s_map, s_heap, disk, db, nreq>>

\* handle_upload_file from the write guard on the bucket to fs::write:
\* get_or_create_dir (dir_ok = FALSE: the expect panics), the hash, the
\* duplicate check
UploadLocked(h, dir_ok) ==
    LET rq == h_req[h]
        p == rq.handle
        file_hash == Sha256Digest(rq.body)
    IN  /\ rq.pc = "lock_bucket"
        /\ rq.op = "upload_file"
        /\ CanTake(b_lock[p], h)
        /\ IF ~dir_ok THEN Finish(h, 0)
           ELSE IF ContainsKey(s_heap[p].files, file_hash) THEN Finish(h, 400)
           ELSE /\ h_req' = [h_req EXCEPT ![h].pc = "fs_write"]
                /\ b_lock' = [b_lock EXCEPT ![p] = Take(@, h)]
                /\ UNCHANGED <<s_lock, d_lock>>
        /\ UNCHANGED <<s_map, s_heap, disk, db, nreq>>

\* an upload that puts the hash into the map whatever fs::write returned
UploadWriteInsertFirst(h, io) ==
    LET rq == h_req[h]
        p == rq.handle
        file_hash == Sha256Digest(rq.body)
        file_path == FilePath(s_heap[p], rq.arg)
    IN  /\ rq.pc = "fs_write"
        /\ disk' = IF io = "ok" THEN Put(disk, file_path, rq.body)
                   ELSE IF io = "write" THEN Put(disk, file_path, <<>>)
                   ELSE disk
        /\ s_heap' = [s_heap EXCEPT ![p].files =
                         BTreeInsert(@, file_hash, file_path)]
        /\ Finish(h, IF io = "ok" THEN 200 ELSE 500)
        /\ UNCHANGED <<s_map, db, nreq>>

\* handle_upload_file from the end of fs::write: on an error 500, else
\* files.insert and 200; the write guard is dropped on return
UploadWrite(h, io) ==
    LET rq == h_req[h]
        p == rq.handle
        file_hash == Sha256Digest(rq.body)
        file_path == FilePath(s_heap[p], rq.arg)
    IN  /\ rq.pc = "fs_write"
        /\ disk' = IF io = "ok" THEN Put(disk, file_path, rq.body)
                   ELSE IF io = "write" THEN Put(disk, file_path, <<>>)
                   ELSE disk
        /\ s_heap' = IF io = "ok"
                     THEN [s_heap EXCEPT ![p].files =
                              BTreeInsert(@, file_hash, file_path)]
                     ELSE s_heap
        /\ Finish(h, IF io = "ok" THEN 200 ELSE 500)
        /\ UNCHANGED <<s_map, db, nreq>>

\* handle_complete_upload from the write guard on the bucket to
\* state.read().await: get_or_create_dir, calculate_merkle_tree
CompleteLocked(h, dir_ok) ==
    LET rq == h_req[h]
        p == rq.handle
    IN  /\ rq.pc = "lock_bucket"
        /\ rq.op = "complete_upload"
        /\ CanTake(b_lock[p], h)
        /\ IF ~dir_ok
           THEN /\ Finish(h, 0)
                /\ UNCHANGED s_heap
           ELSE /\ s_heap' = [s_heap EXCEPT ![p] = CalculateMerkleTree(@)]
                /\ h_req' = [h_req EXCEPT ![h].pc = "state_read"]
                /\ b_lock' = [b_lock EXCEPT ![p] = Take(@, h)]
                /\ s_lock' = Enqueue(s_lock, h, "r")
                /\ UNCHANGED d_lock
        /\ UNCHANGED <<s_map, disk, db, nreq>>

\* handle_complete_upload: the read guard on ServerState is taken (the
\* bucket's write guard held) and persist_bucket_lockless calls
\* db.read().await
CompleteStateRead(h) ==
    /\ h_req[h].pc = "state_read"
    /\ CanTake(s_lock, h)
    /\ s_lock' = Take(s_lock, h)
    /\ d_lock' = Enqueue(d_lock, h, "r")
    /\ h_req' = [h_req EXCEPT ![h].pc = "db_read"]
    /\ UNCHANGED <<s_map, s_heap, b_lock, disk, db, nreq>>

\* persist_bucket_lockless under the read guard on the DB: update_bucket
\* and flush; on an error the expect panics; the three guards are dropped
PersistBucketLockless(h, db_ok) ==
    /\ h_req[h].pc = "db_read"
    /\ CanTake(d_lock, h)
    /\ db' = IF db_ok THEN UpdateBucket(db, s_heap[h_req[h].handle]) ELSE db
    /\ Finish(h, IF db_ok THEN 200 ELSE 0)
    /\ UNCHANGED <<s_map, s_heap, disk, nreq>>

\* handle_download_file from the read guard on the bucket to fs::read
FileLocked(h) ==
    LET rq == h_req[h]
        p == rq.handle
        file_path == IF rq.arg < 0 THEN None ELSE GetFilepath(s_heap[p], rq.arg)
    IN  /\ rq.pc = "lock_bucket"
        /\ rq.op = "file"
        /\ CanTake(b_lock[p], h)
        /\ IF file_path = None THEN Finish(h, 404)
           ELSE /\ h_req' = [h_req EXCEPT ![h].pc = "fs_read"]
                /\ b_lock' = [b_lock EXCEPT ![p] = Take(@, h)]
                /\ UNCHANGED <<s_lock, d_lock>>
        /\ UNCHANGED <<s_map, s_heap, disk, db, nreq>>

\* handle_download_file from the end of fs::read
FileRead(h) ==
    /\ h_req[h].pc = "fs_read"
    /\ Finish(h, DownloadFileReply(HandleView(h), disk, h_req[h].bucket,
                                   h_req[h].arg).status)
    /\ UNCHANGED <<s_map, s_heap, disk, db, nreq>>

\* handle_download_proof under the read guard on the bucket
ProofLocked(h) ==
    LET rq == h_req[h]
    IN  /\ rq.pc = "lock_bucket"
        /\ rq.op = "proof"
        /\ CanTake(b_lock[rq.handle], h)
        /\ Finish(h, DownloadProofReply(HandleView(h), rq.bucket, rq.arg).status)
        /\ UNCHANGED <<s_map, s_heap, disk, db, nreq>>

\* The connection is closed and the handler's future dropped at the await
\* it stands at (status -1).  An fs::write in flight runs on the blocking
\* pool and may still write nothing, a truncated file or the whole blob.
AbortRequest(h, io) ==
    LET rq == h_req[h]
        file_path == FilePath(s_heap[rq.handle], rq.arg)
    IN  /\ rq.pc \notin {"idle", "done"}
        /\ io # "none" => rq.pc = "fs_write"
        /\ disk' = IF io = "ok" THEN Put(disk, file_path, rq.body)
                   ELSE IF io = "write" THEN Put(disk, file_path, <<>>)
                   ELSE disk
        /\ Finish(h, -1)
        /\ UNCHANGED <<s_map, s_heap, db, nreq>>

\* ------------------------------------------- server driven by any requests
UploadFile ==
    /\ \E b \in BucketIds, f \in FileNames, body \in Bodies,
          io \in {"ok", "create", "write"} : HandleUploadFile(b, f, body, io)
    /\ UNCHANGED <<mvars, cvars, hvars>>

CompleteUpload ==
    /\ \E b \in BucketIds, db_ok \in BOOLEAN : HandleCompleteUpload(b, db_ok)
    /\ UNCHANGED <<mvars, cvars, hvars>>

DownloadFile ==
    /\ \E b \in BucketIds, i \in Indices : HandleDownloadFile(b, i)
    /\ UNCHANGED <<mvars, cvars, hvars>>

DownloadProof ==
    /\ \E b \in BucketIds, i \in Indices : HandleDownloadProof(b, i)
    /\ UNCHANGED <<mvars, cvars, hvars>>

Restart ==
    /\ RunServer
    /\ UNCHANGED <<mvars, cvars, hvars>>

\* The server after the constructor on an empty database; the merkle-engine
\* harness is off.
ServerInit ==
    /\ db = EmptyMap
    /\ buckets = LoadBucketsFromDb(db)
    /\ disk = EmptyMap
    /\ resp = NoResponse
    /\ nreq = 0
    /\ s_map = EmptyMap
    /\ s_heap = EmptyMap
    /\ s_lock = NoLock
    /\ b_lock = EmptyMap
    /\ d_lock = NoLock
    /\ h_req = [h \in Handlers |-> NoRequest]
    /\ snap = EmptyMap
    /\ m_leaves = <<>>
    /\ m_tree = DefaultTree
    /\ m_index = 0
    /\ m_proof = NoProof
    /\ m_leaf = None
    /\ m_ok = FALSE
    /\ m_pc = "off"
    /\ c_bucket_id = 1
    /\ c_tree = DefaultTree
    /\ c_state_file = NoStateFile
    /\ c_src = EmptyMap
    /\ c_tasks = EmptyMap
    /\ c_leaves = <<>>
    /\ c_pc = "off"
    /\ c_downloads = EmptyMap
    /\ c_last = NoDownload
    /\ c_ndl = 0
    /\ interrupted = {}

ServerNext == UploadFile \/ CompleteUpload \/ DownloadFile \/ DownloadProof \/ Restart

ServerSpec == ServerInit /\ [][ServerNext]_vars

\* ------------------------------------- server driven by several clients
\* The bucket ids of the clients (each draws its own); the file system and
\* the database do not fail here
ClientBucketIds == 1..MaxBucketIds

ClientUploadFile ==
    /\ \E b \in ClientBucketIds, f \in FileNames, body \in Bodies :
          HandleUploadFile(b, f, body, "ok")
    /\ UNCHANGED <<mvars, cvars, hvars>>

ClientCompleteUpload ==
    /\ \E b \in ClientBucketIds : HandleCompleteUpload(b, TRUE)
    /\ UNCHANGED <<mvars, cvars, hvars>>

ClientDownloadFile ==
    /\ \E b \in ClientBucketIds, i \in Indices : HandleDownloadFile(b, i)
    /\ UNCHANGED <<mvars, cvars, hvars>>

ClientDownloadProof ==
    /\ \E b \in ClientBucketIds, i \in Indices : HandleDownloadProof(b, i)
    /\ UNCHANGED <<mvars, cvars, hvars>>

BucketsNext ==
    \/ ClientUploadFile \/ ClientCompleteUpload \/ ClientDownloadFile
    \/ ClientDownloadProof

BucketsSpec == ServerInit /\ [][BucketsNext]_vars

\* ----------------------------- server with its handlers running together
\* what the handler tasks leave alone
hframe == <<mvars, cvars, buckets, resp, snap>>

\* The uploads the clients send: file k under name k with content k
SentFiles == {<<k, Body(k)>> : k \in 1..NumNames}

\* The indices the clients ask for: the first entry and one past any map
SentIndices == {0, NumContents}

SrvBegin ==
    /\ \E h \in Handlers, b \in ClientBucketIds :
          \/ \E file \in SentFiles :
                BeginRequest(h, "upload_file", b, file[1], file[2])
          \/ BeginRequest(h, "complete_upload", b, 0, <<>>)
          \/ \E i \in SentIndices : BeginRequest(h, "file", b, i, <<>>)
          \/ \E i \in SentIndices : BeginRequest(h, "proof", b, i, <<>>)
    /\ UNCHANGED hframe

SrvGetBucket ==
    /\ \E h \in Handlers : GetBucket(h)
    /\ UNCHANGED hframe

SrvCreateBucket ==
    /\ \E h \in Handlers : EntryOrInsert(h)
    /\ UNCHANGED hframe

SrvUploadLocked ==
    /\ \E h \in Handlers, dir_ok \in BOOLEAN : UploadLocked(h, dir_ok)
    /\ UNCHANGED hframe

SrvUploadWrite ==
    /\ \E h \in Handlers, io \in {"ok", "create", "write"} : UploadWrite(h, io)
    /\ UNCHANGED hframe

SrvCompleteLocked ==
    /\ \E h \in Handlers, dir_ok \in BOOLEAN : CompleteLocked(h, dir_ok)
    /\ UNCHANGED hframe

SrvCompleteStateRead ==
    /\ \E h \in Handlers : CompleteStateRead(h)
    /\ UNCHANGED hframe

SrvPersist ==
    /\ \E h \in Handlers, db_ok \in BOOLEAN : PersistBucketLockless(h, db_ok)
    /\ UNCHANGED hframe

SrvFileLocked ==
    /\ \E h \in Handlers : FileLocked(h)
    /\ UNCHANGED hframe

SrvFileRead ==
    /\ \E h \in Handlers : FileRead(h)
    /\ UNCHANGED hframe

SrvProofLocked ==
    /\ \E h \in Handlers : ProofLocked(h)
    /\ UNCHANGED hframe

SrvAbort ==
    /\ \E h \in Handlers, io \in {"none", "ok", "write"} : AbortRequest(h, io)
    /\ UNCHANGED hframe

\* The server after load_buckets_from_db on an empty database, no request
\* accepted yet
HandlersInit ==
    /\ db = EmptyMap
    /\ s_map = EmptyMap
    /\ s_heap = EmptyMap
    /\ s_lock = NoLock
    /\ b_lock = EmptyMap
    /\ d_lock = NoLock
    /\ h_req = [h \in Handlers |-> NoRequest]
    /\ disk = EmptyMap
    /\ nreq = 0
    /\ buckets = EmptyMap
    /\ resp = NoResponse
    /\ snap = EmptyMap
    /\ m_leaves = <<>>
    /\ m_tree = DefaultTree
    /\ m_index = 0
    /\ m_proof = NoProof
    /\ m_leaf = None
    /\ m_ok = FALSE
    /\ m_pc = "off"
    /\ c_bucket_id = 1
    /\ c_tree = DefaultTree
    /\ c_state_file = NoStateFile
    /\ c_src = EmptyMap
    /\ c_tasks = EmptyMap
    /\ c_leaves = <<>>
    /\ c_pc = "off"
    /\ c_downloads = EmptyMap
    /\ c_last = NoDownload
    /\ c_ndl = 0
    /\ interrupted = {}

HandlersNext ==
    \/ SrvBegin \/ SrvGetBucket \/ SrvCreateBucket \/ SrvUploadLocked
    \/ SrvUploadWrite \/ SrvCompleteLocked \/ SrvCompleteStateRead
    \/ SrvPersist \/ SrvFileLocked \/ SrvFileRead \/ SrvProofLocked
    \/ SrvAbort

HandlersSpec == HandlersInit /\ [][HandlersNext]_vars

\* a step of handler h other than the start of a request and the loss of
\* its connection
Proceed(h) ==
    /\ \/ GetBucket(h)
       \/ EntryOrInsert(h)
       \/ \E dir_ok \in BOOLEAN : UploadLocked(h, dir_ok)
       \/ \E io \in {"ok", "create", "write"} : UploadWrite(h, io)
       \/ \E dir_ok \in BOOLEAN : CompleteLocked(h, dir_ok)
       \/ CompleteStateRead(h)
       \/ \E db_ok \in BOOLEAN : PersistBucketLockless(h, db_ok)
       \/ FileLocked(h)
       \/ FileRead(h)
       \/ ProofLocked(h)
    /\ UNCHANGED hframe

\* The runtime polls every task that can go on, the file system and the
\* database answer, and the locks hand their guards out in queue order
HandlersFairSpec ==
    /\ HandlersInit
    /\ [][HandlersNext]_vars
    /\ \A h \in Handlers : WF_vars(Proceed(h))

\* --------------------------------------------------- merkle engine harness
MInit ==
    /\ m_leaves \in SeqsUpTo(LeafHashes, MaxLeaves)
    /\ m_tree = DefaultTree
    /\ m_index = 0
    /\ m_proof = NoProof
    /\ m_leaf = None
    /\ m_ok = FALSE
    /\ m_pc = "new"
    /\ db = EmptyMap
    /\ buckets = EmptyMap
    /\ disk = EmptyMap
    /\ resp = NoResponse
    /\ nreq = 0
    /\ s_map = EmptyMap
    /\ s_heap = EmptyMap
    /\ s_lock = NoLock
    /\ b_lock = EmptyMap
    /\ d_lock = NoLock
    /\ h_req = [h \in Handlers |-> NoRequest]
    /\ snap = EmptyMap
    /\ c_bucket_id = 1
    /\ c_tree = DefaultTree
    /\ c_state_file = NoStateFile
    /\ c_src = EmptyMap
    /\ c_tasks = EmptyMap
    /\ c_leaves = <<>>
    /\ c_pc = "off"
    /\ c_downloads = EmptyMap
    /\ c_last = NoDownload
    /\ c_ndl = 0
    /\ interrupted = {}

\* build_from_leaves(L)
MBuild ==
    /\ m_pc = "new"
    /\ m_tree' = BuildFromLeaves(m_leaves)
    /\ m_pc' = "built"
    /\ UNCHANGED <<m_leaves, m_index, m_proof, m_leaf, m_ok, svars, cvars, hvars>>

\* bincode round trip of the tree
MSerde ==
    /\ m_pc = "built"
    /\ m_tree' = DeserializeTree(SerializeTree(m_tree))
    /\ m_pc' = "decoded"
    /\ UNCHANGED <<m_leaves, m_index, m_proof, m_leaf, m_ok, svars, cvars, hvars>>

\* get_proof(i), any index up to one past the end
MGetProof ==
    /\ m_pc \in {"built", "decoded"}
    /\ \E i \in 0..(Len(m_leaves) + 1) :
          /\ m_index' = i
          /\ m_proof' = GetProof(m_tree, i)
    /\ m_pc' = "proved"
    /\ UNCHANGED <<m_leaves, m_tree, m_leaf, m_ok, svars, cvars, hvars>>

\* verify_proof(h, proof, root) for a leaf or any node of the tree
MVerify ==
    /\ m_pc = "proved"
    /\ ~m_proof.panic
    /\ RootHash(m_tree) # None
    /\ \E h \in LeafHashes \cup TreeNodes(m_tree) :
          /\ m_leaf' = h
          /\ m_ok' = VerifyProof(h, m_proof.proof, RootHash(m_tree))
    /\ m_pc' = "verified"
    /\ UNCHANGED <<m_leaves, m_tree, m_index, m_proof, svars, cvars, hvars>>

MNext == MBuild \/ MSerde \/ MGetProof \/ MVerify

MerkleSpec == MInit /\ [][MNext]_vars

\* ----------------------------------------------- client upload of a batch
NoTask == [pc |-> "spawned", hash |-> None, status |-> 0]

\* A file appears in the upload folder while no client runs
PutSourceFile(f, plain) ==
    /\ c_pc = "off"
    /\ f \notin DOMAIN c_src
    /\ c_src' = Put(c_src, f, plain)
    /\ UNCHANGED <<c_bucket_id, c_tree, c_state_file, c_tasks, c_leaves, c_pc,
                   c_downloads, c_last, c_ndl,
                   interrupted>>

\* ClientApp::new.  Without a state file the bucket id is drawn at random:
\* an id no run has drawn before (the ids are numbered in the order drawn,
\* c_bucket_id holding the last one while no state file was written).
New ==
    LET st == ReadFromFile(c_state_file, c_bucket_id + 1)
    IN  /\ c_pc = "off"
        /\ c_state_file.exists \/ c_bucket_id < MaxBucketIds
        /\ c_pc' = IF st.panic THEN "off" ELSE "idle"
        /\ c_bucket_id' = IF st.panic THEN c_bucket_id ELSE st.bucket_id
        /\ c_tree' = st.merkle_tree
        /\ UNCHANGED <<c_state_file, c_src, c_tasks, c_leaves, c_downloads,
                       c_last, c_ndl,
                   interrupted>>

\* upload_files up to the spawn of one task per file of the folder
UploadFiles ==
    /\ c_pc = "idle"
    /\ nreq < MaxRequests
    /\ c_leaves' = Leaves(c_tree)
    /\ c_tasks' = [f \in DOMAIN c_src |-> NoTask]
    /\ c_pc' = "uploading"
    /\ UNCHANGED <<c_bucket_id, c_tree, c_state_file, c_src, c_downloads,
                   c_last, c_ndl,
                   interrupted>>

\* encrypt_and_upload of the task of file f up to the server's response
EncryptAndUpload(f, io) ==
    LET data == ApplyKeystream(c_src[f])
        hash == Sha256Digest(data)
    IN  /\ c_pc = "uploading"
        /\ f \in DOMAIN c_tasks
        /\ c_tasks[f].pc = "spawned"
        /\ HandleUploadFile(c_bucket_id, f, data, io)
        /\ c_tasks' = [c_tasks EXCEPT ![f] =
                          [pc |-> "responded", hash |-> hash,
                           status |-> resp'.status]]
        /\ UNCHANGED <<c_bucket_id, c_tree, c_state_file, c_src, c_leaves,
                       c_pc, c_downloads, c_last, c_ndl,
                   interrupted>>

\* encrypt_and_upload of the task of file f panics: fs::read fails on the
\* local file (expect "valid file path") or the request ends without a
\* response (expect "valid request"); the server did not handle it
EncryptAndUploadPanic(f) ==
    /\ c_pc = "uploading"
    /\ f \in DOMAIN c_tasks
    /\ c_tasks[f].pc = "spawned"
    /\ c_tasks' = [c_tasks EXCEPT ![f].pc = "panicked"]
    /\ UNCHANGED <<c_bucket_id, c_tree, c_state_file, c_src, c_leaves,
                   c_pc, c_downloads, c_last, c_ndl,
                   interrupted>>

\* join_all meets the JoinError of a panicked task: it panics in turn, the
\* JoinSet is dropped and the remaining tasks are aborted
JoinAllPanic ==
    /\ c_pc = "uploading"
    /\ \E f \in DOMAIN c_tasks : c_tasks[f].pc = "panicked"
    /\ c_pc' = "off"
    /\ c_tree' = DefaultTree
    /\ c_tasks' = EmptyMap
    /\ c_leaves' = <<>>
    /\ UNCHANGED <<c_bucket_id, c_state_file, c_src, c_downloads, c_last,
                   c_ndl, interrupted>>

\* The client process is cancelled between the spawn of the tasks and
\* persist_state
Cancel ==
    /\ c_pc \in {"uploading", "closed"}
    /\ c_pc' = "off"
    /\ c_tree' = DefaultTree
    /\ c_tasks' = EmptyMap
    /\ c_leaves' = <<>>
    /\ interrupted' = interrupted \cup
           {c_tasks[f].hash : f \in {x \in DOMAIN c_tasks :
                                        c_tasks[x].status = 200}}
    /\ UNCHANGED <<c_bucket_id, c_state_file, c_src, c_downloads, c_last,
                   c_ndl>>

\* a task that pushes the hash and removes the file whatever the status
TaskFinishAnyStatus(f) ==
    /\ c_pc = "uploading"
    /\ f \in DOMAIN c_tasks
    /\ c_tasks[f].pc = "responded"
    /\ c_tasks' = [c_tasks EXCEPT ![f].pc = "done"]
    /\ c_leaves' = Append(c_leaves, c_tasks[f].hash)
    /\ c_src' = [x \in DOMAIN c_src \ {f} |-> c_src[x]]
    /\ UNCHANGED <<c_bucket_id, c_tree, c_state_file, c_pc, c_downloads,
                   c_last, c_ndl, interrupted>>

\* a task that pushes onto its own copy of the leaves taken at the start of
\* the batch (no shared accumulator)
TaskFinishOwnCopy(f) ==
    /\ c_pc = "uploading"
    /\ f \in DOMAIN c_tasks
    /\ c_tasks[f].pc = "responded"
    /\ c_tasks' = [c_tasks EXCEPT ![f].pc = "done"]
    /\ IF c_tasks[f].status = 200
       THEN /\ c_leaves' = Append(Leaves(c_tree), c_tasks[f].hash)
            /\ c_src' = [x \in DOMAIN c_src \ {f} |-> c_src[x]]
       ELSE UNCHANGED <<c_leaves, c_src>>
    /\ UNCHANGED <<c_bucket_id, c_tree, c_state_file, c_pc, c_downloads,
                   c_last, c_ndl, interrupted>>

\* the match in the task of file f: on Ok push the hash under the lock and
\* remove the file from the folder
TaskFinish(f) ==
    /\ c_pc = "uploading"
    /\ f \in DOMAIN c_tasks
    /\ c_tasks[f].pc = "responded"
    /\ c_tasks' = [c_tasks EXCEPT ![f].pc = "done"]
    /\ IF c_tasks[f].status = 200
       THEN /\ c_leaves' = Append(c_leaves, c_tasks[f].hash)
            /\ c_src' = [x \in DOMAIN c_src \ {f} |-> c_src[x]]
       ELSE UNCHANGED <<c_leaves, c_src>>
    /\ UNCHANGED <<c_bucket_id, c_tree, c_state_file, c_pc, c_downloads,
                   c_last, c_ndl,
                   interrupted>>

\* a close_upload that does not wait for the tasks
CloseUploadNoBarrier(db_ok) ==
    /\ c_pc = "uploading"
    /\ HandleCompleteUpload(c_bucket_id, db_ok)
    /\ IF resp'.status = 0
       THEN /\ c_pc' = "off"
            /\ c_tree' = DefaultTree
            /\ c_tasks' = EmptyMap
            /\ c_leaves' = <<>>
       ELSE /\ c_pc' = "closed"
            /\ UNCHANGED <<c_tree, c_tasks, c_leaves>>
    /\ UNCHANGED <<c_bucket_id, c_state_file, c_src, c_downloads, c_last,
                   c_ndl, interrupted>>

\* close_upload after join_all; without a response the expect panics and
\* the process ends
CloseUpload(db_ok) ==
    /\ c_pc = "uploading"
    /\ \A f \in DOMAIN c_tasks : c_tasks[f].pc = "done"
    /\ HandleCompleteUpload(c_bucket_id, db_ok)
    /\ IF resp'.status = 0
       THEN /\ c_pc' = "off"
            /\ c_tree' = DefaultTree
            /\ c_tasks' = EmptyMap
            /\ c_leaves' = <<>>
       ELSE /\ c_pc' = "closed"
            /\ UNCHANGED <<c_tree, c_tasks, c_leaves>>
    /\ UNCHANGED <<c_bucket_id, c_state_file, c_src, c_downloads, c_last,
                   c_ndl, interrupted>>

\* the rest of upload_files: rebuild the tree from the accumulated leaves
\* and persist the state
RebuildAndPersist(io) ==
    /\ c_pc = "closed"
    /\ c_tree' = BuildFromLeaves(c_leaves)
    /\ c_state_file' = PersistState(c_state_file, c_tree', c_bucket_id, io)
    /\ c_pc' = IF io = "ok" THEN "done" ELSE "failed"
    /\ UNCHANGED <<c_bucket_id, c_src, c_tasks, c_leaves, c_downloads,
                   c_last, c_ndl,
                   interrupted>>

\* The client process ends (here on return of upload_files, in the panics
\* and in Cancel): what it held in memory is gone, c_bucket_id stays as the
\* record of the last id drawn
Exit ==
    /\ c_pc \in {"done", "failed"}
    /\ c_pc' = "off"
    /\ c_tree' = DefaultTree
    /\ c_tasks' = EmptyMap
    /\ c_leaves' = <<>>
    /\ UNCHANGED <<c_bucket_id, c_state_file, c_src, c_downloads, c_last,
                   c_ndl, interrupted>>

SourceFile ==
    /\ \E f \in FileNames, plain \in Plaintexts : PutSourceFile(f, plain)
    /\ UNCHANGED <<mvars, svars, hvars>>

ClientNew ==
    /\ New
    /\ UNCHANGED <<mvars, svars, hvars>>

StartBatch ==
    /\ UploadFiles
    /\ UNCHANGED <<mvars, svars, hvars>>

TaskUpload ==
    /\ \E f \in FileNames, io \in {"ok", "create", "write"} :
          EncryptAndUpload(f, io)
    /\ UNCHANGED <<mvars, hvars>>

TaskFail ==
    /\ \E f \in FileNames : EncryptAndUploadPanic(f)
    /\ UNCHANGED <<mvars, svars, hvars>>

JoinFail ==
    /\ JoinAllPanic
    /\ UNCHANGED <<mvars, svars, hvars>>

Kill ==
    /\ Cancel
    /\ UNCHANGED <<mvars, svars, hvars>>

TaskDone ==
    /\ \E f \in FileNames : TaskFinish(f)
    /\ UNCHANGED <<mvars, svars, hvars>>

Close ==
    /\ \E db_ok \in BOOLEAN : CloseUpload(db_ok)
    /\ UNCHANGED <<mvars, hvars>>

Rebuild ==
    /\ \E io \in {"ok", "create", "write"} : RebuildAndPersist(io)
    /\ UNCHANGED <<mvars, svars, hvars>>

ClientExit ==
    /\ Exit
    /\ UNCHANGED <<mvars, svars, hvars>>

\* The server on an empty database and a client not yet started, without a
\* state file and with an empty upload folder
Init ==
    /\ db = EmptyMap
    /\ buckets = LoadBucketsFromDb(db)
    /\ disk = EmptyMap
    /\ resp = NoResponse
    /\ nreq = 0
    /\ s_map = EmptyMap
    /\ s_heap = EmptyMap
    /\ s_lock = NoLock
    /\ b_lock = EmptyMap
    /\ d_lock = NoLock
    /\ h_req = [h \in Handlers |-> NoRequest]
    /\ snap = EmptyMap
    /\ c_bucket_id = 0
    /\ c_tree = DefaultTree
    /\ c_state_file = NoStateFile
    /\ c_src = EmptyMap
    /\ c_tasks = EmptyMap
    /\ c_leaves = <<>>
    /\ c_pc = "off"
    /\ c_downloads = EmptyMap
    /\ c_last = NoDownload
    /\ c_ndl = 0
    /\ interrupted = {}
    /\ m_leaves = <<>>
    /\ m_tree = DefaultTree
    /\ m_index = 0
    /\ m_proof = NoProof
    /\ m_leaf = None
    /\ m_ok = FALSE
    /\ m_pc = "off"

Next ==
    \/ SourceFile \/ ClientNew \/ StartBatch \/ TaskUpload \/ TaskDone
    \/ Close \/ Rebuild \/ ClientExit \/ TaskFail \/ JoinFail \/ Kill

Spec == Init /\ [][Next]_vars

\* ------------------------------------------------- one batch, first run
\* What the upload folder may hold: any set of file names, any plaintexts
Folders ==
    UNION {[names -> Plaintexts] : names \in SUBSET FileNames}

\* A client just constructed on its first run (no state file) with any
\* upload folder, the server on an empty database
BatchInit ==
    /\ db = EmptyMap
    /\ buckets = LoadBucketsFromDb(db)
    /\ disk = EmptyMap
    /\ resp = NoResponse
    /\ nreq = 0
    /\ s_map = EmptyMap
    /\ s_heap = EmptyMap
    /\ s_lock = NoLock
    /\ b_lock = EmptyMap
    /\ d_lock = NoLock
    /\ h_req = [h \in Handlers |-> NoRequest]
    /\ snap = EmptyMap
    /\ c_state_file = NoStateFile
    /\ c_bucket_id = ReadFromFile(c_state_file, 1).bucket_id
    /\ c_tree = ReadFromFile(c_state_file, 1).merkle_tree
    /\ c_src \in Folders
    /\ c_tasks = EmptyMap
    /\ c_leaves = <<>>
    /\ c_pc = "idle"
    /\ c_downloads = EmptyMap
    /\ c_last = NoDownload
    /\ c_ndl = 0
    /\ interrupted = {}
    /\ m_leaves = <<>>
    /\ m_tree = DefaultTree
    /\ m_index = 0
    /\ m_proof = NoProof
    /\ m_leaf = None
    /\ m_ok = FALSE
    /\ m_pc = "off"

BatchNext ==
    \/ StartBatch \/ TaskUpload \/ TaskDone \/ TaskFail \/ JoinFail
    \/ Close \/ Rebuild

BatchSpec == BatchInit /\ [][BatchNext]_vars

\* ------------------------- one batch, the client or the server may go down
\* The first batch of a client with the client process killed at any point
\* and the server process restarted at any point
OutageNext ==
    \/ StartBatch \/ TaskUpload \/ TaskDone \/ TaskFail \/ JoinFail
    \/ Close \/ Rebuild \/ Kill \/ Restart

OutageSpec == BatchInit /\ [][OutageNext]_vars

\* ------------------------------------------------- one batch, a later run
\* A client constructed on the state file an earlier batch persisted, with
\* any upload folder.  The earlier batch uploaded one file (any content k,
\* under the first file name) to bucket 1, its upload and its
\* complete_upload answered 200 and persist_state succeeded.
LaterBatchInit ==
    /\ \E k \in 1..NumContents :
          LET h == Sha256Digest(Body(k))
              path == FilePath(NewBucket(1), 1)
              bucket == CalculateMerkleTree(
                            [NewBucket(1) EXCEPT
                                !.files = BTreeInsert(<<>>, h, path)])
          IN  /\ db = UpdateBucket(EmptyMap, bucket)
              /\ disk = Put(EmptyMap, path, Body(k))
              /\ c_state_file = SerializeState(BuildFromLeaves(<<h>>), 1)
    /\ buckets = LoadBucketsFromDb(db)
    /\ snap = [b \in DOMAIN buckets |->
                  [files |-> buckets[b].files,
                   answers |-> Answers(buckets, disk, b)]]
    /\ resp = NoResponse
    /\ nreq = 0
    /\ s_map = EmptyMap
    /\ s_heap = EmptyMap
    /\ s_lock = NoLock
    /\ b_lock = EmptyMap
    /\ d_lock = NoLock
    /\ h_req = [h \in Handlers |-> NoRequest]
    /\ c_bucket_id = ReadFromFile(c_state_file, 0).bucket_id
    /\ c_tree = ReadFromFile(c_state_file, 0).merkle_tree
    /\ c_src \in Folders
    /\ c_tasks = EmptyMap
    /\ c_leaves = <<>>
    /\ c_pc = "idle"
    /\ c_downloads = EmptyMap
    /\ c_last = NoDownload
    /\ c_ndl = 0
    /\ interrupted = {}
    /\ m_leaves = <<>>
    /\ m_tree = DefaultTree
    /\ m_index = 0
    /\ m_proof = NoProof
    /\ m_leaf = None
    /\ m_ok = FALSE
    /\ m_pc = "off"

LaterBatchNext ==
    \/ StartBatch \/ TaskUpload \/ TaskDone \/ TaskFail \/ JoinFail
    \/ Close \/ Rebuild

LaterBatchSpec == LaterBatchInit /\ [][LaterBatchNext]_vars

\* ------------------------------------------- client downloads, any server
\* The state files a client may hold: none, or the leaves of some earlier
\* batches in the order they were pushed
StateFiles ==
    {NoStateFile} \cup
    {SerializeState(BuildFromLeaves(leaves), 1) :
        leaves \in {l \in SeqsUpTo(LeafHashes, NumContents) :
                       \A i, j \in 1..Len(l) : l[i] = l[j] => i = j}}

\* ClientApp::new on a state file; the server is any server
DownloadInit ==
    /\ c_state_file \in StateFiles
    /\ c_bucket_id = ReadFromFile(c_state_file, 1).bucket_id
    /\ c_tree = ReadFromFile(c_state_file, 1).merkle_tree
    /\ c_src = EmptyMap
    /\ c_tasks = EmptyMap
    /\ c_leaves = <<>>
    /\ c_pc = "idle"
    /\ c_downloads = EmptyMap
    /\ c_last = NoDownload
    /\ c_ndl = 0
    /\ interrupted = {}
    /\ db = EmptyMap
    /\ buckets = EmptyMap
    /\ disk = EmptyMap
    /\ resp = NoResponse
    /\ nreq = 0
    /\ s_map = EmptyMap
    /\ s_heap = EmptyMap
    /\ s_lock = NoLock
    /\ b_lock = EmptyMap
    /\ d_lock = NoLock
    /\ h_req = [h \in Handlers |-> NoRequest]
    /\ snap = EmptyMap
    /\ m_leaves = <<>>
    /\ m_tree = DefaultTree
    /\ m_index = 0
    /\ m_proof = NoProof
    /\ m_leaf = None
    /\ m_ok = FALSE
    /\ m_pc = "off"

Download ==
    /\ \E file \in FileReplies(c_tree), proof \in ProofReplies(c_tree),
          io \in {"ok", "create", "write"} :
            DownloadAndVerify(file, proof, io)
    /\ UNCHANGED <<mvars, svars, hvars>>

DownloadNext == Download

DownloadSpec == DownloadInit /\ [][DownloadNext]_vars


\* C2: round trip - the proof of leaf i verifies leaf i against the root.
C2_RoundTrip ==
    (m_pc = "verified" /\ m_index < Len(m_leaves)
        /\ m_leaf = m_leaves[m_index + 1]) => m_ok

C2_Witness ==
    /\ m_pc = "verified"
    /\ Len(m_leaves) = 3
    /\ m_index = 2
    /\ m_leaf = m_leaves[3]
    /\ m_ok

\* C5: soundness - with a collision-free hash, the proof of leaf i verifies
\* no hash other than leaf i.
C5_Soundness ==
    (m_pc = "verified" /\ m_index < Len(m_leaves)
        /\ m_leaf # m_leaves[m_index + 1]) => ~m_ok

C5_Witness ==
    /\ m_pc = "verified"
    /\ Len(m_leaves) = 3
    /\ m_index = 1
    /\ m_leaf \in TreeNodes(m_tree)
    /\ m_leaf # m_leaves[2]
    /\ ~m_ok

\* ----------------------------------------------------- bucket store claims
\* the entries of s are in strictly ascending hash order
Ascending(s) == \A i \in 1..(Len(s) - 1) : HashLess(s[i], s[i + 1])

\* s is t with some entries left out
RECURSIVE IsSubSeq(_, _)
IsSubSeq(s, t) ==
    IF s = <<>> THEN TRUE
    ELSE IF t = <<>> THEN FALSE
    ELSE IF Head(s) = Head(t) THEN IsSubSeq(Tail(s), Tail(t))
    ELSE IsSubSeq(s, Tail(t))

\* the elements of a set of hashes in ascending order
RECURSIVE AscendingSeq(_)
AscendingSeq(S) ==
    IF S = {} THEN <<>>
    ELSE LET m == CHOOSE x \in S : \A y \in S \ {x} : HashLess(x, y)
         IN  <<m>> \o AscendingSeq(S \ {m})

KeySet(files) == {files[i][1] : i \in 1..Len(files)}

\* C6: whenever GET /proof/{b}/{i} answers 200, the proof verifies, under the
\* bucket's current root, the Sha256 of the bytes GET /file/{b}/{i} returns in
\* that state.
C6_SameIndexing ==
    (resp.op = "proof" /\ resp.status = 200) =>
        LET b == resp.bucket
            file == DownloadFileReply(buckets, disk, b, resp.arg)
            decoded == DeserializeProof(resp.body)
            root == RootHash(buckets[b].merkle_tree)
        IN  /\ file.status = 200
            /\ decoded.ok
            /\ root # None
            /\ VerifyProof(Sha256Digest(file.body), decoded.proof, root)

\* C7 as claimed: in every state the leaves of a bucket's tree are the keys
\* of its files map, ascending and without duplicates.
C7_TreeMirrorsFiles ==
    \A b \in DOMAIN buckets :
        /\ Leaves(buckets[b].merkle_tree) = Keys(buckets[b].files)
        /\ Ascending(Keys(buckets[b].files))

\* C7 amended: the keys are always ascending without duplicates, the leaves
\* are always a subsequence of them (the keys as of the last rebuild), and
\* right after a complete_upload on the bucket or a restart they are equal.
C7_TreeMirrorsFilesAtRebuild ==
    \A b \in DOMAIN buckets :
        /\ Ascending(Keys(buckets[b].files))
        /\ IsSubSeq(Leaves(buckets[b].merkle_tree), Keys(buckets[b].files))
        /\ (resp.op = "restart" \/ (resp.op = "complete_upload" /\ resp.bucket = b))
              => Leaves(buckets[b].merkle_tree) = Keys(buckets[b].files)

C7_Witness ==
    /\ resp.op = "complete_upload"
    /\ Len(buckets[resp.bucket].files) = 3
    /\ Len(Leaves(buckets[resp.bucket].merkle_tree)) = 3

\* C8: for every entry h -> path of a files map, the blob at path exists and
\* its Sha256 is h.
C8_BlobMatchesKey ==
    \A b \in DOMAIN buckets :
        \A i \in 1..Len(buckets[b].files) :
            LET h == buckets[b].files[i][1]
                path == buckets[b].files[i][2]
            IN  path \in DOMAIN disk /\ Sha256Digest(disk[path]) = h

\* C9: right after complete_upload the tree is the one built from the set of
\* keys taken in ascending order, whatever order the uploads arrived in.
C9_RootFromKeySet ==
    resp.op = "complete_upload" =>
        buckets[resp.bucket].merkle_tree
            = BuildFromLeaves(AscendingSeq(KeySet(buckets[resp.bucket].files)))

C9_Witness ==
    /\ resp.op = "complete_upload"
    /\ resp.status = 200
    /\ Len(buckets[resp.bucket].files) = 3
    /\ RootHash(buckets[resp.bucket].merkle_tree) # None

\* C10: after a restart the buckets are exactly those a complete_upload
\* persisted, each with the files map of its last complete_upload that
\* answered 200, its tree rebuilt from those keys, and /file and /proof
\* answering as they did right after that complete_upload.
C10_RestartRestores ==
    resp.op = "restart" =>
        /\ DOMAIN buckets = DOMAIN snap
        /\ \A b \in DOMAIN buckets :
              /\ buckets[b].files = snap[b].files
              /\ buckets[b].merkle_tree = BuildFromLeaves(Keys(snap[b].files))
              /\ Answers(buckets, disk, b) = snap[b].answers

\* C10 without the /file answers (not the claim: the part of it that holds)
RestartRestoresMapAndProofs ==
    resp.op = "restart" =>
        /\ DOMAIN buckets = DOMAIN snap
        /\ \A b \in DOMAIN buckets :
              /\ buckets[b].files = snap[b].files
              /\ buckets[b].merkle_tree = BuildFromLeaves(Keys(snap[b].files))
              /\ Answers(buckets, disk, b).proof = snap[b].answers.proof

\* C4: a download writes the decrypted file to the download directory if
\* and only if the client has a root and verify_proof on the hash of the
\* returned bytes, the returned proof and that root gave true (an I/O error
\* of the write itself aside); with no root it fails with
\* MissingMerkleRoot, with a failing proof with InvalidProof, in both
\* cases nothing is written, and the tree, the bucket id and the state file
\* stay as they were.
C4_WriteIffVerified ==
    [][c_ndl' # c_ndl =>
        LET file == c_last'.file
            hash == Sha256Digest(file.body)
            decoded == DeserializeProof(c_last'.proof.body)
            received == /\ file.status = 200
                        /\ c_last'.proof.status = 200
                        /\ decoded.ok
            root == RootHash(c_tree)
            verified == /\ received
                        /\ root # None
                        /\ VerifyProof(hash, decoded.proof, root)
        IN  /\ (verified /\ c_last'.io = "ok") =>
                /\ c_last'.result = "Ok"
                /\ c_downloads' = Put(c_downloads, hash, ApplyKeystream(file.body))
            /\ ~verified =>
                /\ c_last'.result # "Ok"
                /\ c_downloads' = c_downloads
            /\ (received /\ root = None) => c_last'.result = "MissingMerkleRoot"
            /\ (received /\ root # None /\ ~verified) =>
                c_last'.result = "InvalidProof"
            /\ UNCHANGED <<c_tree, c_bucket_id, c_state_file>>]_vars

\* A download whose proof did not verify against the root, nothing written
C4_Witness ==
    /\ c_ndl > 0
    /\ RootHash(c_tree) # None
    /\ c_last.file.status = 200
    /\ c_last.result = "InvalidProof"
    /\ c_downloads = EmptyMap

\* A download on a client without a root
C4_WitnessMissingRoot ==
    /\ c_ndl > 0
    /\ RootHash(c_tree) = None
    /\ c_last.file.status = 200
    /\ c_last.proof.status = 200
    /\ c_last.result = "MissingMerkleRoot"
    /\ c_downloads = EmptyMap

\* A download that verified and wrote the plaintext
C4_WitnessWritten ==
    /\ c_last.result = "Ok"
    /\ \E h \in DOMAIN c_downloads :
          /\ h = Sha256Digest(c_last.file.body)
          /\ c_downloads[h] = ApplyKeystream(c_last.file.body)

\* C1: whatever the server returns, every file in the download directory
\* is named by a hash that is one of the leaves of the client's tree.
C1_OnlyCommittedLeaves ==
    \A h \in DOMAIN c_downloads :
        \E i \in 1..LeavesCount(c_tree) : Leaves(c_tree)[i] = h

\* C3: after a batch whose uploads all returned 200 and whose
\* complete_upload returned 200 (the client being the only writer of the
\* bucket), the root of the client's rebuilt tree equals the root of the
\* server's tree of the bucket.
C3_RootsAgree ==
    (/\ c_pc \in {"done", "failed"}
     /\ \A f \in DOMAIN c_tasks : c_tasks[f].status = 200)
        => RootHash(c_tree) = RootHash(buckets[c_bucket_id].merkle_tree)

Occurrences(seq, x) == Cardinality({i \in 1..Len(seq) : seq[i] = x})

\* the tasks of the running batch whose ciphertext hashes to h
TasksOf(h) == {f \in DOMAIN c_tasks : c_tasks[f].hash = h}

\* C12: when a batch (the first of a client, so the content is new to the
\* bucket) holds two or more files of identical ciphertext and the server
\* answered none of them 500, then under every interleaving of the tasks
\* exactly one of them got 200, the others 400, and the rebuilt tree holds
\* that hash exactly once.
C12_OneOfDuplicatesAccepted ==
    c_pc \in {"done", "failed"} =>
        \A h \in {c_tasks[f].hash : f \in DOMAIN c_tasks} :
            (/\ Cardinality(TasksOf(h)) >= 2
             /\ \A f \in TasksOf(h) : c_tasks[f].status # 500)
                => /\ Cardinality({f \in TasksOf(h) : c_tasks[f].status = 200}) = 1
                   /\ \A f \in TasksOf(h) : c_tasks[f].status \in {200, 400}
                   /\ Occurrences(Leaves(c_tree), h) = 1

\* A finished batch of two files of the same content, one answered 200 and
\* one 400
C12_Witness ==
    /\ c_pc = "done"
    /\ \E f, g \in DOMAIN c_tasks :
          /\ f # g
          /\ c_tasks[f].hash = c_tasks[g].hash
          /\ c_tasks[f].status = 200
          /\ c_tasks[g].status = 400
          /\ Leaves(c_tree) = <<c_tasks[f].hash>>

\* C13: every GET /file and GET /proof request is answered with status 200
\* or 404; no handler panics (status 0 stands for a handler that panicked).
C13_DownloadsNeverPanic ==
    resp.op \in {"file", "proof"} => resp.status \in {200, 404}

\* the tasks that ran to their end, and those of them answered 200
DoneTasks == {f \in DOMAIN c_tasks : c_tasks[f].pc = "done"}
AcceptedTasks == {f \in DoneTasks : c_tasks[f].status = 200}

\* C14: a file whose upload the server answered with a status other than
\* 200 adds no leaf and keeps its local plaintext; the batch goes on: the
\* accumulator holds the old leaves and one leaf per accepted file, the
\* local files of accepted uploads are removed, the driver is still at its
\* place, complete_upload is sent once every task ended, and the rebuild
\* and persist_state follow.
C14_FailedUploadSkipped ==
    /\ c_pc \in {"uploading", "closed"} =>
          /\ \A f \in DoneTasks :
                c_tasks[f].status # 200 =>
                    /\ f \in DOMAIN c_src
                    /\ Sha256Digest(ApplyKeystream(c_src[f])) = c_tasks[f].hash
          /\ \A f \in AcceptedTasks : f \notin DOMAIN c_src
          /\ Len(c_leaves) = Len(Leaves(c_tree)) + Cardinality(AcceptedTasks)
          /\ SubSeq(c_leaves, 1, Len(Leaves(c_tree))) = Leaves(c_tree)
          /\ \A h \in {c_tasks[f].hash : f \in DoneTasks} :
                Occurrences(c_leaves, h) =
                    Occurrences(Leaves(c_tree), h)
                      + Cardinality({f \in AcceptedTasks : c_tasks[f].hash = h})
    /\ (c_pc = "uploading" /\ DoneTasks = DOMAIN c_tasks /\ nreq < MaxRequests)
          => ENABLED Close
    /\ c_pc = "closed" => ENABLED Rebuild
    /\ c_pc \in {"done", "failed"} =>
          /\ Leaves(c_tree) = c_leaves
          /\ Len(c_leaves) = Cardinality(AcceptedTasks)
          /\ c_pc = "done" => c_state_file = SerializeState(c_tree, c_bucket_id)

\* A batch that returned Ok although one upload was answered 500: the other
\* file is a leaf, the failed one is still in the folder
C14_Witness ==
    /\ c_pc = "done"
    /\ \E f, g \in DOMAIN c_tasks :
          /\ c_tasks[f].status = 500
          /\ c_tasks[g].status = 200
          /\ f \in DOMAIN c_src
          /\ g \notin DOMAIN c_src
          /\ Leaves(c_tree) = <<c_tasks[g].hash>>
          /\ c_state_file = SerializeState(c_tree, c_bucket_id)

\* C15: a task that met a transport error or an unreadable local file is
\* skipped and the batch is not aborted: the driver does not end while a
\* task is in that state.
C15_TaskErrorSkipped ==
    [][(/\ c_pc = "uploading"
        /\ \E f \in DOMAIN c_tasks : c_tasks[f].pc = "panicked")
           => c_pc' # "off"]_vars

\* C16: at every instant the state file, when there is one, decodes to a
\* complete state (the previous or the new one).
C16_StateFileDecodes ==
    c_state_file.exists =>
        /\ ~ReadFromFile(c_state_file, 0).panic
        /\ c_state_file =
              SerializeState(ReadFromFile(c_state_file, 0).merkle_tree,
                             ReadFromFile(c_state_file, 0).bucket_id)

\* C17: every run uses the bucket id drawn in the first run (the id 1), so
\* the bucket the client addresses is the only one it ever uploaded to.
C17_BucketIdNeverRotates ==
    c_pc # "off" =>
        /\ c_bucket_id = 1
        /\ DOMAIN buckets \subseteq {c_bucket_id}

\* C18: a cancellation between the uploads and persist_state leaves the
\* state file as it was, and a later batch that uploads the same files
\* again (the server failing on none of its uploads) and returns Ok ends
\* with their leaves in the client's tree.
C18_RerunIdempotent ==
    /\ [][(c_pc \in {"uploading", "closed"} /\ c_pc' = "off")
             => c_state_file' = c_state_file]_vars
    /\ []((/\ c_pc = "done"
           /\ \A f \in DOMAIN c_tasks : c_tasks[f].status \in {200, 400})
             => \A h \in interrupted :
                  (\E f \in DOMAIN c_tasks : c_tasks[f].hash = h)
                      => \E i \in 1..LeavesCount(c_tree) : Leaves(c_tree)[i] = h)

\* the bucket's tree was rebuilt after its last upload and is not empty
Completed(bucket) ==
    /\ bucket.files # <<>>
    /\ Leaves(bucket.merkle_tree) = Keys(bucket.files)

\* C19: for two distinct completed buckets A and B that both hold a
\* ciphertext, the proof bucket A serves for it does not verify against
\* the root of bucket B.
C19_ProofBoundToBucket ==
    \A A \in DOMAIN buckets, B \in DOMAIN buckets, i \in 0..NumContents :
        LET file == DownloadFileReply(buckets, disk, A, i)
            proof == DownloadProofReply(buckets, A, i)
            hash == Sha256Digest(file.body)
        IN  (/\ A # B
             /\ Completed(buckets[A])
             /\ Completed(buckets[B])
             /\ file.status = 200
             /\ proof.status = 200
             /\ ContainsKey(buckets[B].files, hash))
                => ~VerifyProof(hash, DeserializeProof(proof.body).proof,
                                RootHash(buckets[B].merkle_tree))

\* C20: serializing a tree and deserializing it gives the tree back, with
\* the same leaves, the same levels and the same root, the empty tree
\* included: build_from_leaves(leaves(t)) = t.
C20_SerdeRoundTrip ==
    [][(m_pc = "built" /\ m_pc' = "decoded") =>
          /\ m_tree' = m_tree
          /\ Leaves(m_tree') = Leaves(m_tree)
          /\ RootHash(m_tree') = RootHash(m_tree)
          /\ BuildFromLeaves(Leaves(m_tree)) = m_tree]_vars

\* A tree of three leaves (an odd level) after the round trip
C20_Witness ==
    /\ m_pc = "decoded"
    /\ Len(m_leaves) = 3
    /\ LeavesCount(m_tree) = 3
    /\ Len(m_tree.levels) = 3
    /\ RootHash(m_tree) # None

\* The empty tree after the round trip
C20_WitnessEmpty ==
    /\ m_pc = "decoded"
    /\ m_leaves = <<>>
    /\ m_tree = DefaultTree

\* C21: build_from_leaves(L) has no levels and no root when L is empty;
\* otherwise level 0 is L, every level above has ceil(n/2) nodes for the n
\* nodes below it, node j being the hash of the pair (2j, 2j+1) of the level
\* below with the last node of an odd level paired with itself, every level
\* but the top has at least two nodes, the top level has one node, and that
\* node is the root.
C21_LevelsStructure ==
    m_pc \in {"built", "decoded", "proved", "verified"} =>
        IF m_leaves = <<>>
        THEN m_tree.levels = <<>> /\ RootHash(m_tree) = None
        ELSE LET levels == m_tree.levels
                 n == Len(levels)
             IN  /\ n >= 1
                 /\ levels[1] = m_leaves
                 /\ \A k \in 1..(n - 1) :
                       LET lo == levels[k]
                           up == levels[k + 1]
                       IN  /\ Len(lo) >= 2
                           /\ Len(up) = (Len(lo) + 1) \div 2
                           /\ \A j \in 1..Len(up) :
                                 up[j] = Sha256Digest(Concat(lo[2 * j - 1],
                                            IF 2 * j <= Len(lo) THEN lo[2 * j]
                                            ELSE lo[2 * j - 1]))
                 /\ Len(levels[n]) = 1
                 /\ RootHash(m_tree) # None
                 /\ RootHash(m_tree) = levels[n][1]

\* A tree of three leaves: the second node of level 1 is the third leaf
\* paired with itself
C21_Witness ==
    /\ m_pc = "built"
    /\ Len(m_leaves) = 3
    /\ Len(m_tree.levels) = 3
    /\ m_tree.levels[2][2] = Sha256Digest(Concat(m_leaves[3], m_leaves[3]))
    /\ RootHash(m_tree) = m_tree.levels[3][1]

\* The empty leaf sequence: no levels, no root
C21_WitnessEmpty ==
    /\ m_pc = "built"
    /\ m_leaves = <<>>
    /\ m_tree.levels = <<>>
    /\ RootHash(m_tree) = None

C23_WitnessRight ==
    /\ m_pc = "proved"
    /\ Len(m_leaves) = 4
    /\ m_index = 0
    /\ m_proof.proof = <<<<m_leaves[2], 1>>, <<m_tree.levels[2][2], 1>>>>

\* C29: get_proof on an index at or past the number of leaves (any index on
\* the empty tree) panics and returns no proof.
C29_OutOfRangePanics ==
    (m_pc = "proved" /\ m_index >= LeavesCount(m_tree)) => m_proof.panic

\* the leaves the client loaded from the state file at its start
LoadedLeaves == Leaves(ReadFromFile(c_state_file, 0).merkle_tree)

\* the tasks the server answered 200
Accepted == {f \in DOMAIN c_tasks : c_tasks[f].status = 200}

\* C24: when a batch runs to its end, under every order of the uploads and
\* of the pushes, the leaves of the rebuilt tree are the leaves the client
\* held before the batch followed by the hashes of the files whose upload
\* was answered 200, one per file and none twice, and the folder has lost
\* exactly those files.
C24_LeavesAreOldPlusAccepted ==
    [][(c_pc = "closed" /\ c_pc' \in {"done", "failed"}) =>
          LET pre == LoadedLeaves
              post == Leaves(c_tree')
              added == SubSeq(post, Len(pre) + 1, Len(post))
          IN  /\ Len(post) = Len(pre) + Cardinality(Accepted)
              /\ SubSeq(post, 1, Len(pre)) = pre
              /\ \A f \in Accepted : Occurrences(added, c_tasks[f].hash) = 1
              /\ \A i \in 1..Len(added) :
                    \E f \in Accepted : c_tasks[f].hash = added[i]
              /\ DOMAIN c_src' = DOMAIN c_tasks \ Accepted]_vars

\* A finished batch of two accepted files on top of one earlier leaf
C24_Witness ==
    /\ c_pc = "done"
    /\ Cardinality(Accepted) = 2
    /\ Len(Leaves(c_tree)) = 3
    /\ \A f \in Accepted : Occurrences(Leaves(c_tree), c_tasks[f].hash) = 1
    /\ c_src = EmptyMap

\* C25: complete_upload is sent only when every task of the batch has
\* ended; the tree in memory is replaced only after complete_upload was
\* answered; the state file is written only with the rebuilt tree; and while
\* the uploads run (up to the answer of complete_upload) the tree in memory
\* is the one loaded at the start.
C25_PostBatchOrder ==
    /\ [][(nreq' # nreq /\ resp'.op = "complete_upload")
             => \A f \in DOMAIN c_tasks : c_tasks[f].pc = "done"]_vars
    /\ [][(c_tree' # c_tree /\ c_pc' # "off")
             => /\ c_pc = "closed"
                /\ resp.op = "complete_upload"
                /\ c_tree' = BuildFromLeaves(c_leaves)]_vars
    /\ [][c_state_file' # c_state_file
             => /\ c_pc = "closed"
                /\ c_tree' = BuildFromLeaves(c_leaves)
                /\ c_state_file' \in {SerializeState(c_tree', c_bucket_id),
                                      TornStateFile}]_vars
    /\ [](c_pc \in {"uploading", "closed"}
             => c_tree = ReadFromFile(c_state_file, 0).merkle_tree)

\* A batch at its end: every task ended, complete_upload answered, the tree
\* rebuilt with a new leaf and persisted
C25_Witness ==
    /\ c_pc = "done"
    /\ DOMAIN c_tasks # {}
    /\ \A f \in DOMAIN c_tasks : c_tasks[f].pc = "done"
    /\ resp.op = "complete_upload"
    /\ Len(Leaves(c_tree)) >= 2
    /\ c_state_file = SerializeState(c_tree, c_bucket_id)

\* the files of the batch whose local plaintext the batch removed
Removed == {f \in DOMAIN c_tasks : f \notin DOMAIN c_src}

\* h is a leaf of the tree in the state file
Persisted(file, h) ==
    LET leaves == Leaves(ReadFromFile(file, 0).merkle_tree)
    IN  \E i \in 1..Len(leaves) : leaves[i] = h

\* C28: whenever no batch is in progress - upload_files returned, or the
\* client process ended in the middle of a batch - every file of the batch
\* whose local plaintext was removed has its ciphertext hash among the
\* leaves of the tree in the state file.
C28_RemovedImpliesPersisted ==
    /\ [](c_pc \in {"done", "failed"}
            => \A f \in Removed : Persisted(c_state_file, c_tasks[f].hash))
    /\ [][(c_pc \in {"uploading", "closed"} /\ c_pc' = "off")
            => \A f \in Removed : Persisted(c_state_file', c_tasks[f].hash)]_vars

\* C30: every leaf of the tree in the client's state file is a key of the
\* files map in the server's database record of the bucket named in the
\* state file.
C30_PersistedLeafIsDurable ==
    (c_state_file.exists /\ ~c_state_file.torn) =>
        \A i \in 1..Len(c_state_file.merkle_tree) :
            /\ c_state_file.bucket_id \in DOMAIN db
            /\ ContainsKey(DeserializeBucket(db[c_state_file.bucket_id]).files,
                           c_state_file.merkle_tree[i])

\* C22: when requests for a bucket id that is not in the map yet race, one
\* ClientBucket is allocated for the id: every allocation is the one the map
\* holds under its id, and every handler that obtained a handle holds the
\* handle the map holds for its bucket id, so no upload is recorded in an
\* object that is not in the map.
C22_OneInstancePerBucket ==
    /\ \A p \in DOMAIN s_heap :
          /\ s_heap[p].bucket_id \in DOMAIN s_map
          /\ s_map[s_heap[p].bucket_id] = p
    /\ \A h \in Handlers :
          h_req[h].handle # 0 =>
              /\ h_req[h].bucket \in DOMAIN s_map
              /\ s_map[h_req[h].bucket] = h_req[h].handle

\* Two uploads that both found the bucket missing and went to create it:
\* both were accepted and both entries are in the one bucket of the map
C22_Witness ==
    \E h1 \in Handlers, h2 \in Handlers :
        /\ h1 # h2
        /\ h_req[h1].raced /\ h_req[h2].raced
        /\ h_req[h1].op = "upload_file" /\ h_req[h2].op = "upload_file"
        /\ h_req[h1].bucket = h_req[h2].bucket
        /\ h_req[h1].pc = "done" /\ h_req[h2].pc = "done"
        /\ h_req[h1].status = 200 /\ h_req[h2].status = 200
        /\ h_req[h1].handle = h_req[h2].handle
        /\ Len(s_heap[s_map[h_req[h1].bucket]].files) = 2

\* C26: in every step of an upload_file handler the database and every
\* tree stay as they are; a files map changes only in the step that ends
\* the handler with 200, where the blob has been written and the entry is
\* hash -> path; a handler that ends with 500, with 400, by a panic or by
\* losing its connection at any await leaves every files map as it was, and
\* a bucket it created is empty.
C26_InsertAfterWrite ==
    [][\A h \in Handlers :
          (/\ h_req[h].op = "upload_file"
           /\ h_req[h].pc \notin {"idle", "done"}
           /\ h_req'[h] # h_req[h])
             => /\ db' = db
                /\ \A p \in DOMAIN s_heap :
                      s_heap'[p].merkle_tree = s_heap[p].merkle_tree
                /\ \A p \in DOMAIN s_heap' \ DOMAIN s_heap :
                      s_heap'[p] = NewBucket(h_req[h].bucket)
                /\ IF h_req'[h].pc = "done" /\ h_req'[h].status = 200
                   THEN LET p == h_req[h].handle
                            path == FilePath(s_heap[p], h_req[h].arg)
                        IN  /\ path \in DOMAIN disk'
                            /\ disk'[path] = h_req[h].body
                            /\ s_heap'[p].files =
                                  BTreeInsert(s_heap[p].files,
                                              Sha256Digest(h_req[h].body), path)
                            /\ \A q \in DOMAIN s_heap \ {p} :
                                  s_heap'[q].files = s_heap[q].files
                   ELSE \A p \in DOMAIN s_heap :
                            s_heap'[p].files = s_heap[p].files]_vars

\* An upload answered 500 after fs::write truncated the path: the file is
\* on disk, empty, and no files map has an entry
C26_Witness ==
    \E h \in Handlers :
        /\ h_req[h].op = "upload_file"
        /\ h_req[h].pc = "done"
        /\ h_req[h].status = 500
        /\ \E path \in DOMAIN disk : disk[path] = <<>>
        /\ \A p \in DOMAIN s_heap : s_heap[p].files = <<>>

\* An upload that lost its connection during fs::write: the blob is
\* written, no files map has an entry
C26_WitnessAborted ==
    \E h \in Handlers :
        /\ h_req[h].op = "upload_file"
        /\ h_req[h].pc = "done"
        /\ h_req[h].status = -1
        /\ \E path \in DOMAIN disk : disk[path] # <<>>
        /\ \A p \in DOMAIN s_heap : s_heap[p].files = <<>>

\* task h waits for the lock of some bucket
WaitsForBucket(h) ==
    \E p \in DOMAIN b_lock :
        \E i \in 1..Len(b_lock[p].q) : b_lock[p].q[i][1] = h

\* task h holds a guard on ServerState
HoldsState(h) == s_lock.w = h \/ h \in s_lock.r

\* C27: no handler waits for a bucket lock while it holds a guard on
\* ServerState, and with the tasks polled fairly and the locks handing out
\* their guards in queue order every handler that started comes to its end,
\* whatever the other handlers do (on the same bucket or another, creating
\* buckets or not).
C27_NoDeadlock ==
    /\ [](\A h \in Handlers : WaitsForBucket(h) => ~HoldsState(h))
    /\ \A h \in Handlers :
          (h_req[h].pc \notin {"idle", "done"}) ~> (h_req[h].pc = "done")

\* A complete_upload that holds the write guard of its bucket and the read
\* guard of ServerState while another handler waits for the write guard of
\* ServerState to create a bucket
C27_Witness ==
    \E h1 \in Handlers, h2 \in Handlers :
        /\ h_req[h1].pc = "db_read"
        /\ h1 \in s_lock.r
        /\ b_lock[h_req[h1].handle].w = h1
        /\ h_req[h2].pc = "create"
        /\ ~CanTake(s_lock, h2)

\* A complete_upload that holds the write guard of its bucket and waits for
\* ServerState while an upload waits for the same bucket
C27_WitnessBucketWait ==
    \E h1 \in Handlers, h2 \in Handlers :
        /\ h_req[h1].pc = "state_read"
        /\ b_lock[h_req[h1].handle].w = h1
        /\ h_req[h2].op = "upload_file"
        /\ h_req[h2].pc = "lock_bucket"
        /\ h_req[h2].handle = h_req[h1].handle

\* what the server holds of bucket b: the entry of ServerState.buckets with
\* its ClientBucket (bucket id, files map, tree) and the record in the
\* database
BucketState(b) ==
    [entry |-> IF b \in DOMAIN s_map
               THEN <<s_map[b], s_heap[s_map[b]]>> ELSE <<>>,
     durable |-> IF b \in DOMAIN db THEN <<db[b]>> ELSE <<>>]

\* C31: every step of a handler whose request is addressed to bucket A
\* (upload_file, complete_upload, file or proof; from the start of the
\* request to its end, a panic or the loss of the connection included)
\* leaves the entry, the files map, the tree and the database record of
\* every other bucket B as they were.  The duplicate check of an upload to B
\* reads the files map of B alone: the upload is answered 400 only when B
\* holds the hash, and when B does not hold it (whatever the other buckets
\* hold) the handler goes on to fs::write and ends with 200, unless the
\* directory cannot be made (panic), the write fails (500, B as it was) or
\* the connection is lost.
C31_OtherBucketsUntouched ==
    [][\A h \in Handlers :
          h_req'[h] # h_req[h] =>
             LET rq == h_req[h]
                 A == IF h_req'[h].pc = "get_bucket"
                      THEN h_req'[h].bucket ELSE rq.bucket
                 file_hash == Sha256Digest(rq.body)
             IN  /\ \A B \in ClientBucketIds \ {A} :
                       BucketState(B)' = BucketState(B)
                 /\ (rq.op = "upload_file" /\ rq.pc = "lock_bucket") =>
                       LET own == s_heap[s_map[A]].files
                       IN  IF ContainsKey(own, file_hash)
                           THEN /\ h_req'[h].pc = "done"
                                /\ h_req'[h].status \in {400, 0, -1}
                           ELSE \/ h_req'[h].pc = "fs_write"
                                \/ /\ h_req'[h].pc = "done"
                                   /\ h_req'[h].status \in {0, -1}
                 /\ (rq.op = "upload_file" /\ rq.pc = "fs_write") =>
                       /\ h_req'[h].pc = "done"
                       /\ h_req'[h].status \in {200, 500, -1}
                       /\ h_req'[h].status = 200 =>
                             ContainsKey(s_heap'[s_map[A]].files, file_hash)
                       /\ h_req'[h].status = 500 =>
                             s_heap'[s_map[A]] = s_heap[s_map[A]]]_vars

\* Bucket A was completed with a ciphertext and its record is in the
\* database; the same ciphertext was then uploaded to bucket B and answered
\* 200; both files maps hold the hash and the record of A is still the one
\* complete_upload wrote
C31_Witness ==
    \E h \in Handlers, A \in ClientBucketIds, B \in ClientBucketIds,
       k \in 1..NumNames :
        /\ A # B
        /\ A \in DOMAIN db /\ A \in DOMAIN s_map /\ B \in DOMAIN s_map
        /\ db[A] = SerializeBucket(s_heap[s_map[A]])
        /\ RootHash(s_heap[s_map[A]].merkle_tree) = LeafHash(k)
        /\ ContainsKey(s_heap[s_map[B]].files, LeafHash(k))
        /\ B \notin DOMAIN db
        /\ h_req[h].op = "upload_file"
        /\ h_req[h].bucket = B
        /\ h_req[h].pc = "done"
        /\ h_req[h].status = 200

\* Two handlers at work on different buckets at the same time: an upload in
\* fs::write on one bucket while a complete_upload on the other stands
\* before the database
C31_WitnessTogether ==
    \E h1 \in Handlers, h2 \in Handlers :
        /\ h_req[h1].op = "upload_file"
        /\ h_req[h1].pc = "fs_write"
        /\ h_req[h2].op = "complete_upload"
        /\ h_req[h2].pc = "db_read"
        /\ h_req[h1].bucket # h_req[h2].bucket
        /\ s_heap[h_req[h2].handle].files # <<>>

====
